---- MODULE Spec2Model ----
(***************************************************************************)
(* Transactional in-memory cache with revision tracking (data-eden cache). *)
(* The cache engine lives in src/packages/codegen/__tests__/go.test.ts:    *)
(* CacheImpl, LiveCacheTransactionImpl, CommittingTransactionImpl,         *)
(* LruCacheImpl, the default merge strategies and deepMerge.               *)
(*                                                                         *)
(* Execution model.  The host is a JavaScript event loop.  A step of this  *)
(* model is either a call of the application, run up to the first await of *)
(* the async function it calls, or one promise job of a call in flight:    *)
(* the code between two awaits (one turn of a `for await` loop, or the     *)
(* part of a turn between two awaits of its body).  Promise jobs of the    *)
(* calls in flight interleave in any order; a timer callback runs only     *)
(* when no promise job is queued; the host may clear a WeakRef whose       *)
(* target nothing holds between any two jobs, and the clock may advance    *)
(* between any two jobs.                                                   *)
(***************************************************************************)
EXTENDS Integers, Sequences, FiniteSets, TLC

-----------------------------------------------------------------------------
(* Bounds of the model *)

\* number of calls the application makes (load, clear, beginTransaction, get,
\* set, delete, merge, commit) when it may make any of them
MaxOps == 4

\* number of async calls of the application in flight at a time
MaxPending == 2

\* number of calls the application makes when it only begins transactions,
\* sets and commits
MaxWriterOps == 7

\* Date.now() ranges over 1..MaxTime
MaxTime == 2

\* expiration.lru is drawn from 0..MaxLruOption
MaxLruOption == 1

\* number of calls of the application that fills an LRU tier of capacity 2
\* from one transaction, and the range 1..MaxLruTime of Date.now() there
MaxLruOps == 5

MaxLruTime == 3

\* number of calls the application makes when two transactions commit
\* without waiting for each other
MaxOverlapOps == 6

\* number of requests started through the tracked fetch functions
MaxRequests == 3

\* number of requestsCompleted calls
MaxWaiters == 1

\* the numbers that occur in the entities passed to deepMerge are 0..MaxNumber
MaxNumber == 1

\* number of calls the application makes when it loads, saves, clears and
\* iterates a cache with a small LRU tier
MaxFacadeOps == 5

\* number of calls the application makes when it works through one
\* transaction that it commits again and again, and clears the cache
MaxSessionOps == 7

\* number of calls the application makes when it loads and writes through
\* transactions, with the default strategies, awaiting each call
MaxLogOps == 6

\* number of calls the application makes when it reads some keys and writes
\* others through one transaction
MaxReadOps == 5

\* an LRU tier used on its own: its capacity is drawn from 1..MaxLruCapacity
\* and it is set MaxLruSetOps times
MaxLruCapacity == 2

MaxLruSetOps == 4

Keys == {"k1", "k2"}

\* the keys of the scenario that fills an LRU tier of capacity 2
AllKeys == Keys \cup {"k3"}

Txs == {"t1", "t2"}

Fields == {"a", "b"}


-----------------------------------------------------------------------------
(* Values: the JSON-like entities the cache stores *)

\* the JavaScript value undefined
Undefined == [t |-> "undefined"]

\* a Map without the key (Map.prototype.has is false)
Absent == [t |-> "absent"]

\* the error JSON.parse throws inside structuredClone
CloneError == [t |-> "error"]

\* the Error('ref is undefined') the iterator of the cache throws
IterationError == [t |-> "ref is undefined"]

\* a promise that never settles (what a hook that awaits forever returns)
Pending == [t |-> "promise"]

Num(n) == [t |-> "num", v |-> n]

\* a string
Str(s) == [t |-> "str", v |-> s]

Obj(f) == [t |-> "obj", f |-> f]

\* the object with the one field fld
Obj1(fld, n) == Obj([x \in {fld} |-> Num(n)])

\* the object with the fields a and b
Obj2(n, m) == Obj([x \in Fields |-> IF x = "a" THEN Num(n) ELSE Num(m)])

\* the JavaScript value null
Null == [t |-> "null"]

\* an array
Arr(items) == [t |-> "arr", items |-> items]

\* obj !== null && !Array.isArray(obj) && typeof obj === 'object'
isObject(x) == x.t = "obj"

\* JavaScript truthiness of a cached value: objects are truthy, undefined is not
Truthy(x) ==
    /\ x.t \notin {"undefined", "absent", "null"}
    /\ x.t = "num" => x.v # 0
    /\ x.t = "str" => x.v # ""

\* Number(s) of a string: the empty string is 0, a decimal literal is its
\* number, any other string is NaN.  The numeric strings of the model are
\* one digit long.
NaN == [t |-> "nan"]

StringToNumber(s) ==
    IF s = "" THEN Num(0)
    ELSE IF \E n \in 0..9 : ToString(n) = s
         THEN Num(CHOOSE n \in 0..9 : ToString(n) = s)
         ELSE NaN

\* String(x) as the abstract equality of x with a primitive computes it
\* (ToPrimitive): an array is its items joined by commas, null and undefined
\* items being empty; any other object is "[object Object]"
RECURSIVE ToPrimitiveString(_)
RECURSIVE JoinItems(_, _)
JoinItems(items, i) ==
    IF i > Len(items) THEN ""
    ELSE (IF items[i].t \in {"null", "undefined"} THEN ""
          ELSE ToPrimitiveString(items[i]))
         \o (IF i < Len(items) THEN "," ELSE "")
         \o JoinItems(items, i + 1)

ToPrimitiveString(x) ==
    IF x.t = "num" THEN ToString(x.v)
    ELSE IF x.t = "str" THEN x.v
    ELSE IF x.t = "arr" THEN JoinItems(x.items, 1)
    ELSE IF x.t = "promise" THEN "[object Promise]"
    ELSE "[object Object]"

\* x != y of JavaScript (abstract equality, with its coercions).  Two objects
\* are compared by reference: the operands deepMerge compares are fields of
\* two different entities, hence different references.
LooseNotEqual(x, y) ==
    LET nullish == {"undefined", "null"}
        primitive == {"num", "str"}
    IN IF x.t \in nullish \/ y.t \in nullish
       THEN ~(x.t \in nullish /\ y.t \in nullish)
       ELSE IF x.t = "num" /\ y.t = "num" THEN x.v # y.v
       ELSE IF x.t = "str" /\ y.t = "str" THEN x.v # y.v
       ELSE IF x.t = "num" /\ y.t = "str" THEN x # StringToNumber(y.v)
       ELSE IF x.t = "str" /\ y.t = "num" THEN StringToNumber(x.v) # y
       ELSE IF x.t \in primitive
            THEN (IF x.t = "str" THEN x.v # ToPrimitiveString(y)
                  ELSE x # StringToNumber(ToPrimitiveString(y)))
       ELSE IF y.t \in primitive
            THEN (IF y.t = "str" THEN ToPrimitiveString(x) # y.v
                  ELSE StringToNumber(ToPrimitiveString(x)) # y)
       ELSE TRUE

\* a deep merge that concatenates two arrays instead of taking the source
RECURSIVE deepMergeConcatenating(_, _)
deepMergeConcatenating(targetData, sourceData) ==
    IF isObject(sourceData) /\ isObject(targetData)
    THEN LET s == sourceData.f
             t == targetData.f
         IN Obj([k \in (DOMAIN t) \cup (DOMAIN s) |->
                  IF k \notin DOMAIN s THEN t[k]
                  ELSE IF k \notin DOMAIN t THEN s[k]
                  ELSE IF LooseNotEqual(s[k], t[k])
                       THEN LET result == deepMergeConcatenating(t[k], s[k])
                            IN IF LooseNotEqual(result, t[k]) THEN result ELSE t[k]
                       ELSE t[k]])
    ELSE IF sourceData.t = "arr" /\ targetData.t = "arr"
         THEN Arr(targetData.items \o sourceData.items)
    ELSE sourceData

\* deepMerge, with resolveConflict inlined
RECURSIVE deepMerge(_, _)
deepMerge(targetData, sourceData) ==
    IF isObject(sourceData) /\ isObject(targetData)
    THEN LET s == sourceData.f
             t == targetData.f
         IN Obj([k \in (DOMAIN t) \cup (DOMAIN s) |->
                  IF k \notin DOMAIN s THEN t[k]
                  ELSE IF k \notin DOMAIN t THEN s[k]
                  ELSE IF LooseNotEqual(s[k], t[k])
                       THEN LET result == deepMerge(t[k], s[k])
                            IN IF LooseNotEqual(result, t[k]) THEN result ELSE t[k]
                       ELSE t[k]])
    ELSE sourceData

\* JSON.parse(JSON.stringify(x)): undefined cannot be parsed back, a field
\* holding undefined is dropped, an array item holding undefined becomes
\* null, a promise has no own enumerable field and comes back as {}
RECURSIVE structuredClone(_)
structuredClone(x) ==
    IF x.t = "undefined" THEN CloneError
    ELSE IF x.t = "promise" THEN Obj(<<>>)
    ELSE IF isObject(x)
         THEN Obj([k \in {j \in DOMAIN x.f : x.f[j].t # "undefined"} |->
                    structuredClone(x.f[k])])
    ELSE IF x.t = "arr"
         THEN Arr([i \in 1..Len(x.items) |->
                     IF x.items[i].t = "undefined" THEN Null
                     ELSE structuredClone(x.items[i])])
         ELSE x

\* { ...value }: a new object with the own fields of value
ShallowCopy(value) == IF isObject(value) THEN Obj(value.f) ELSE Obj(<<>>)

-----------------------------------------------------------------------------
(* Program constants *)

\* DEFAULT_EXPIRATION.lru
DefaultLru == 10000

\* DEFAULT_EXPIRATION.ttl
DefaultTtl == 60000

DEFAULT_ENTRY_STATE == [retained |-> [lru |-> FALSE, ttl |-> DefaultTtl]]

\* the entry state a live transaction records on get and set
TouchedState(ttl, time) ==
    [retained |-> [lru |-> TRUE, ttl |-> ttl], lastAccessed |-> time]

\* state?.lastAccessed, with 0 standing for a missing (falsy) value
lastAccessedOf(state) ==
    IF state = Undefined THEN 0
    ELSE IF "lastAccessed" \in DOMAIN state THEN state.lastAccessed ELSE 0

\* state?.retained.lru
retainedLru(state) == IF state = Undefined THEN FALSE ELSE state.retained.lru

-----------------------------------------------------------------------------
(* JavaScript Map: a sequence of [key, value] in insertion order *)

MapIndex(m, k) ==
    IF \E i \in 1..Len(m) : m[i].key = k
    THEN CHOOSE i \in 1..Len(m) : m[i].key = k
    ELSE 0

MapHas(m, k) == MapIndex(m, k) # 0

\* Map.prototype.get: undefined when the key is missing
MapGet(m, k) == IF MapHas(m, k) THEN m[MapIndex(m, k)].value ELSE Undefined

\* Map.prototype.set: a present key keeps its place
MapSet(m, k, v) ==
    IF MapHas(m, k)
    THEN [m EXCEPT ![MapIndex(m, k)] = [key |-> k, value |-> v]]
    ELSE Append(m, [key |-> k, value |-> v])

MapDelete(m, k) ==
    IF MapHas(m, k)
    THEN LET i == MapIndex(m, k)
         IN SubSeq(m, 1, i - 1) \o SubSeq(m, i + 1, Len(m))
    ELSE m

MapKeys(m) == {m[i].key : i \in 1..Len(m)}

-----------------------------------------------------------------------------
(* LruCacheImpl *)

\* a set that makes room by evicting the entry inserted last
LruSetEvictingNewest(lru, max, cacheKey, value) ==
    LET kept == IF MapHas(lru, cacheKey) THEN MapDelete(lru, cacheKey)
                ELSE IF Len(lru) = max
                     THEN (IF Len(lru) = 0 THEN lru
                           ELSE SubSeq(lru, 1, Len(lru) - 1))
                     ELSE lru
    IN Append(kept, [key |-> cacheKey, value |-> value])

\* LruCacheImpl.set
LruSet(lru, max, cacheKey, value) ==
    LET kept == IF MapHas(lru, cacheKey) THEN MapDelete(lru, cacheKey)
                ELSE IF Len(lru) = max
                     THEN (IF Len(lru) = 0 THEN lru ELSE Tail(lru))
                     ELSE lru
    IN Append(kept, [key |-> cacheKey, value |-> value])

-----------------------------------------------------------------------------
(* Array.prototype.sort as CacheImpl.commitTransaction calls it.  The        *)
(* comparator answers -1 for a tie, so it is not a consistent comparator and *)
(* the order of ties is the engine's: this is V8's sort of an array shorter  *)
(* than 64 (one run found by CountAndMakeRun, the rest placed by binary      *)
(* insertion).                                                               *)

\* the comparator of commitTransaction on two staged entries
sortCompare(e, e1) ==
    IF lastAccessedOf(e.state) # 0 /\ lastAccessedOf(e1.state) # 0
       /\ lastAccessedOf(e.state) < lastAccessedOf(e1.state)
    THEN 1 ELSE -1

Reverse(s) == [i \in 1..Len(s) |-> s[Len(s) + 1 - i]]

RECURSIVE RunExtend(_, _, _)
RunExtend(a, idx, isDescending) ==
    IF idx > Len(a) THEN idx - 1
    ELSE LET order == sortCompare(a[idx], a[idx - 1])
         IN IF (isDescending /\ order >= 0) \/ (~isDescending /\ order < 0)
            THEN idx - 1
            ELSE RunExtend(a, idx + 1, isDescending)

RECURSIVE BinarySearch(_, _, _, _)
BinarySearch(a, pivot, left, right) ==
    IF left >= right THEN left
    ELSE LET mid == left + ((right - left) \div 2)
         IN IF sortCompare(pivot, a[mid]) < 0
            THEN BinarySearch(a, pivot, left, mid)
            ELSE BinarySearch(a, pivot, mid + 1, right)

RECURSIVE BinaryInsertionSort(_, _)
BinaryInsertionSort(a, start) ==
    IF start > Len(a) THEN a
    ELSE LET pivot == a[start]
             left == BinarySearch(a, pivot, 1, start)
             placed == SubSeq(a, 1, left - 1) \o <<pivot>>
                       \o SubSeq(a, left, start - 1)
                       \o SubSeq(a, start + 1, Len(a))
         IN BinaryInsertionSort(placed, start + 1)

sortEntries(entries) ==
    IF Len(entries) < 2 THEN entries
    ELSE LET isDescending == sortCompare(entries[2], entries[1]) < 0
             runLength == RunExtend(entries, 3, isDescending)
             run == IF isDescending
                    THEN Reverse(SubSeq(entries, 1, runLength))
                         \o SubSeq(entries, runLength + 1, Len(entries))
                    ELSE entries
         IN BinaryInsertionSort(run, runLength + 1)


-----------------------------------------------------------------------------
(* State *)

VARIABLES
    cache,      \* CacheImpl: #weakCache, #entryRevisions, #cacheEntryState, #lruCache
    tx,         \* the live transactions, by name
    calls,      \* the async calls in flight: where each one stands
    options,    \* the CacheOptions the cache was built with
    now,        \* Date.now()
    app,        \* the application: the calls it has made and may still make
    net         \* the settled-tracking middleware: its two WeakMaps, the
                \* requests and the requestsCompleted calls

vars == <<cache, tx, calls, options, now, app, net>>

\* the slots of the calls in flight
Calls == 1..MaxPending

\* a slot without a call
NoCall == [op |-> "none"]

\* the job queue is empty: no call has a pending promise job
Quiescent == \A c \in Calls : calls[c].op = "none"

HasFreeCall == \E c \in Calls : calls[c].op = "none"

\* the slot a new call takes
FreeCall ==
    CHOOSE c \in Calls :
        /\ calls[c].op = "none"
        /\ \A d \in 1..(c - 1) : calls[d].op # "none"

\* an object of the heap: the value it holds and which object it is.  The
\* objects the cache stores under one key are told apart by id; two clones
\* of one value are two objects.
Object(id, value) == [id |-> id, value |-> value]

\* what the program reads from a reference to an object, or from undefined
valueOf(object) == IF object = Undefined THEN Undefined ELSE object.value

\* new WeakRef(target): target is an object of the heap
WeakRef(target) == [target |-> target, cleared |-> FALSE]

\* a WeakRef the host has cleared: its target is gone
ClearedRef == [target |-> Undefined, cleared |-> TRUE]

\* WeakRef.prototype.deref, also of a missing map entry (ref?.deref()): the
\* object, or undefined
deref(ref) ==
    IF ref = Undefined THEN Undefined
    ELSE IF ref.cleared THEN Undefined ELSE ref.target

\* CacheImpl constructor: expiration.lru is used only when it is truthy
lruPolicyOf(opts) == IF opts.lru # 0 THEN opts.lru ELSE DefaultLru

EmptyCache ==
    [weakCache |-> <<>>, entryRevisions |-> <<>>,
     cacheEntryState |-> <<>>, lruCache |-> <<>>]

\* a name no transaction has been begun under.  The fields from pc on are
\* history kept for the properties: how the promise of its last commit call
\* stands ("idle" before the first call, then "pending", "resolved" or
\* "rejected") and the entries that call had staged when it settled; the
\* values cache.get gave when beginTransaction was called and when its
\* promise resolved; the keys it has set, merged or deleted; for each key the value of its last set, if no
\* merge or delete of the key followed; the transactions whose commit had
\* resolved when it was begun; the number of its commit calls; the
\* transactions whose commit had resolved when its last commit was called;
\* the keys its local overlay held then; the number of calls of
\* hooks.revisionMergeStrategy its commits have made.
NoTx ==
    [live |-> FALSE, transactionalCache |-> <<>>, localUpdatedEntries |-> <<>>,
     cacheEntryState |-> <<>>, localRevisions |-> <<>>, entryRevisions |-> <<>>,
     mergedRevisions |-> <<>>, pc |-> "idle", staged |-> <<>>,
     atBegin |-> [k \in AllKeys |-> Undefined],
     atResolve |-> [k \in AllKeys |-> Undefined], touched |-> {},
     lastSet |-> [k \in AllKeys |-> Absent], begunAfter |-> {},
     commits |-> 0, after |-> {}, asked |-> {}, hookCalls |-> 0]

-----------------------------------------------------------------------------
(* Settled-tracking middleware *)

\* the fetch functions built with the middleware
Fetches == {"f1", "f2"}

\* the requests, in the order they are started
Requests == 1..MaxRequests

\* the requestsCompleted calls, in the order they are made
Waiters == 1..MaxWaiters

Methods == {"GET", "POST"}

\* the internal errors the finally block of the middleware throws
MissingDebugInformation ==
    "[INTERNAL ERROR @data-eden/network]: Could not find debug information for a previously started request"

MissingPromise ==
    "[INTERNAL ERROR @data-eden/network]: Could not find requestsCompleted promise for a previously started request"

\* a requestsCompleted call that has not been made.  status is the state of
\* the promise the call returned ("waiting" while it is pending), deferred
\* the number of the deferred it races (0 for none), race the state of the
\* promise of Promise.race ("none" when the call made none), chained whether
\* the returned promise has subscribed to the race, timer the state of the
\* setTimeout of the call, message the message of its error.  atCall
\* keeps, for the properties, the requests of the fetch pending at the call.
NoWaiter ==
    [status |-> "idle", fetch |-> "f1", deferred |-> 0, race |-> "none",
     chained |-> FALSE, timer |-> "none", message |-> "", atCall |-> {}]

\* a WeakMap entry is [has, ...]: has is false while the map has no entry
\* for the fetch.  deferreds counts the calls of defer(); a deferred is known
\* by its number.  raised holds the internal errors thrown so far.  jobs is
\* the queue of the promise jobs of the requestsCompleted calls, the oldest
\* first.
NoTracking ==
    [TrackingInfoPerFetch |-> [f \in Fetches |-> [has |-> FALSE, infos |-> <<>>]],
     RequestsCompletedPromisesByToken |->
         [f \in Fetches |-> [has |-> FALSE, id |-> 0, resolved |-> FALSE]],
     deferreds |-> 0,
     raised |-> {},
     requests |-> [r \in Requests |->
                     [status |-> "idle", fetch |-> "f1", method |-> "GET"]],
     waiters |-> [w \in Waiters |-> NoWaiter],
     jobs |-> <<>>]

\* getPendingRequestState
getPendingRequestState(n, originatingFetch) ==
    IF ~n.TrackingInfoPerFetch[originatingFetch].has THEN <<>>
    ELSE n.TrackingInfoPerFetch[originatingFetch].infos

\* hasPendingRequests
hasPendingRequests(n, originatingFetch) ==
    Len(getPendingRequestState(n, originatingFetch)) > 0

\* a middleware that registers a new deferred for every request
trackStartDeferringAlways(n, originatingFetch, debugInfo) ==
    [n EXCEPT
       !.TrackingInfoPerFetch[originatingFetch] =
           [has |-> TRUE,
            infos |-> Append(IF n.TrackingInfoPerFetch[originatingFetch].has
                             THEN n.TrackingInfoPerFetch[originatingFetch].infos
                             ELSE <<>>, debugInfo)],
       !.RequestsCompletedPromisesByToken[originatingFetch] =
           [has |-> TRUE, id |-> n.deferreds + 1, resolved |-> FALSE],
       !.deferreds = @ + 1]

\* SettledTrackingMiddleware up to its await of next(request)
trackStart(n, originatingFetch, debugInfo) ==
    LET fetchDebugInfos == getPendingRequestState(n, originatingFetch)
        fresh == Len(fetchDebugInfos) = 0
    IN [n EXCEPT
          !.TrackingInfoPerFetch[originatingFetch] =
              [has |-> TRUE, infos |-> Append(fetchDebugInfos, debugInfo)],
          !.RequestsCompletedPromisesByToken[originatingFetch] =
              IF fresh
              THEN [has |-> TRUE, id |-> n.deferreds + 1, resolved |-> FALSE]
              ELSE @,
          !.deferreds = IF fresh THEN @ + 1 ELSE @]

\* fetchDebugInfos.findIndex((item) => item === debugInfo), 0 for -1
findIndex(fetchDebugInfos, debugInfo) ==
    IF \E i \in 1..Len(fetchDebugInfos) : fetchDebugInfos[i] = debugInfo
    THEN CHOOSE i \in 1..Len(fetchDebugInfos) :
            /\ fetchDebugInfos[i] = debugInfo
            /\ \A j \in 1..(i - 1) : fetchDebugInfos[j] # debugInfo
    ELSE 0

\* fetchDebugInfos.splice(index, 1)
splice(fetchDebugInfos, index) ==
    [i \in 1..(Len(fetchDebugInfos) - 1) |->
        IF i < index THEN fetchDebugInfos[i] ELSE fetchDebugInfos[i + 1]]

\* the reaction Promise.race registered on a promise it was given: it will
\* settle the race of call w with the outcome of that promise
raceReaction(w, outcome) == [kind |-> "race", w |-> w, outcome |-> outcome]

\* deferred.resolve(): the promise of the deferred is fulfilled, and the
\* reactions that the requestsCompleted calls racing it have registered are
\* queued as promise jobs, in the order of the calls
resolveDeferred(n, originatingFetch) ==
    LET deferred == n.RequestsCompletedPromisesByToken[originatingFetch]
        racing(w) == /\ n.waiters[w].race # "none"
                     /\ n.waiters[w].fetch = originatingFetch
                     /\ n.waiters[w].deferred = deferred.id
        reactions == SelectSeq([w \in Waiters |-> raceReaction(w, "fulfilled")],
                               LAMBDA job : racing(job.w))
    IN IF deferred.resolved THEN n
       ELSE [n EXCEPT
               !.RequestsCompletedPromisesByToken[originatingFetch].resolved = TRUE,
               !.jobs = @ \o reactions]

\* a finally block that removes the oldest pending request
trackSettleRemovingFirst(n, originatingFetch, debugInfo) ==
    LET fetchDebugInfos == getPendingRequestState(n, originatingFetch)
        index == findIndex(fetchDebugInfos, debugInfo)
        rest == splice(fetchDebugInfos, 1)
        spliced == [n EXCEPT !.TrackingInfoPerFetch[originatingFetch].infos = rest]
    IN IF index = 0 THEN n
       ELSE IF Len(rest) = 0 THEN resolveDeferred(spliced, originatingFetch)
       ELSE spliced

\* the finally block of SettledTrackingMiddleware; it runs when next(request)
\* fulfils and when it rejects.  An index of -1 throws before the list is
\* changed, a missing deferred throws after the splice.
trackSettle(n, originatingFetch, debugInfo) ==
    LET fetchDebugInfos == getPendingRequestState(n, originatingFetch)
        index == findIndex(fetchDebugInfos, debugInfo)
        rest == splice(fetchDebugInfos, index)
        deferred == n.RequestsCompletedPromisesByToken[originatingFetch]
        spliced == [n EXCEPT !.TrackingInfoPerFetch[originatingFetch].infos = rest]
    IN IF index = 0
       THEN [n EXCEPT !.raised = @ \cup {MissingDebugInformation}]
       ELSE IF Len(rest) # 0 THEN spliced
       ELSE IF ~deferred.has
       THEN [spliced EXCEPT !.raised = @ \cup {MissingPromise}]
       ELSE resolveDeferred(spliced, originatingFetch)

\* the promise job of a reaction of Promise.race: the first one to run
\* settles the race, a later one finds it settled; a race the returned
\* promise has subscribed to queues the job that settles that promise
raceSettles(n, w, outcome) ==
    LET settledRace == [n EXCEPT !.waiters[w].race = outcome]
    IN IF n.waiters[w].race # "pending" THEN n
       ELSE IF n.waiters[w].chained
       THEN [settledRace EXCEPT
               !.jobs = Append(@, [kind |-> "settle", w |-> w, outcome |-> outcome])]
       ELSE settledRace

\* the promise job that resolves the promise of the async function with the
\* promise it returned: it calls then on the race, whose reaction is queued
\* at once when the race is settled already
returnedChains(n, w) ==
    LET subscribed == [n EXCEPT !.waiters[w].chained = TRUE]
    IN IF n.waiters[w].race = "pending" THEN subscribed
       ELSE [subscribed EXCEPT
               !.jobs = Append(@, [kind |-> "settle", w |-> w,
                                   outcome |-> n.waiters[w].race])]

\* the promise job that settles the promise requestsCompleted returned as
\* the race has settled
returnedSettles(n, w, outcome) ==
    [n EXCEPT !.waiters[w].status =
        IF outcome = "fulfilled" THEN "resolved" ELSE "rejected"]

\* defaultRequestsCompletedOptions.timeoutMessagePrefix
timeoutMessagePrefix ==
    "requestsCompleted timeout waiting for requests to complete:"

\* fetchDebugInfos.map(({ method, url }) => `  ${method} ${url}`).join('\n'),
\* from the item at index i on
RECURSIVE pendingRequestLines(_, _)
pendingRequestLines(fetchDebugInfos, i) ==
    IF i > Len(fetchDebugInfos) THEN ""
    ELSE "  " \o fetchDebugInfos[i].method \o " " \o fetchDebugInfos[i].url
         \o (IF i < Len(fetchDebugInfos) THEN "\n" ELSE "")
         \o pendingRequestLines(fetchDebugInfos, i + 1)

\* the debug information of request r
debugInfoOf(n, r) ==
    [id |-> r, method |-> n.requests[r].method, url |-> "/resource"]

\* the requests of a fetch whose middleware call has not finished
PendingRequests(n, originatingFetch) ==
    {r \in Requests : /\ n.requests[r].status = "pending"
                      /\ n.requests[r].fetch = originatingFetch}


-----------------------------------------------------------------------------
(* CacheImpl *)

\* a get that answers from the LRU tier only
CacheGetStronglyHeld(c, cacheKey) == valueOf(MapGet(c.lruCache, cacheKey))

\* CacheImpl.get: what the caller reads from the object get returns
CacheGet(c, cacheKey) == valueOf(deref(MapGet(c.weakCache, cacheKey)))

\* the ids of the objects of cacheKey that something refers to: the target
\* of its weak reference, the object the LRU tier holds, the object a call
\* in flight has read and the clones a commit in flight has staged
ObjectsInUse(c, cs, cacheKey) ==
    {deref(MapGet(c.weakCache, cacheKey)).id :
        x \in {y \in {1} : deref(MapGet(c.weakCache, cacheKey)) # Undefined}}
    \cup {MapGet(c.lruCache, cacheKey).id :
             x \in {y \in {1} : MapHas(c.lruCache, cacheKey)}}
    \cup {cs[x].held :
             x \in {y \in DOMAIN cs : /\ cs[y].op \in {"clear", "begin", "save",
                                                       "entries", "commit"}
                                      /\ cs[y].entry.key = cacheKey
                                      /\ cs[y].held # 0}}
    \cup UNION {{cs[x].staged[i].id :
                    i \in {j \in 1..Len(cs[x].staged) :
                              cs[x].staged[j].key = cacheKey}} :
                 x \in {y \in DOMAIN cs : cs[y].op = "commit"}}

\* the id of a new object of cacheKey: one no reference leads to
NewObject(c, cs, cacheKey) ==
    LET inUse == ObjectsInUse(c, cs, cacheKey)
    IN CHOOSE id \in 1..(Cardinality(inUse) + 1) :
          /\ id \notin inUse
          /\ \A older \in 1..(id - 1) : older \in inUse

\* CacheImpl.entryRevisions: the revisions the iterator yields
CacheEntryRevisions(c, cacheKey) ==
    IF MapHas(c.entryRevisions, cacheKey) THEN MapGet(c.entryRevisions, cacheKey)
    ELSE <<>>

\* the append-or-set of a revision list, in load and in commitTransaction
appendOrSet(revisionMap, cacheKey, revisions) ==
    IF MapHas(revisionMap, cacheKey)
    THEN MapSet(revisionMap, cacheKey, MapGet(revisionMap, cacheKey) \o revisions)
    ELSE MapSet(revisionMap, cacheKey, revisions)

\* CacheImpl[Symbol.asyncIterator] runs to its end: every weak entry resolves
entriesComplete(c) ==
    \A i \in 1..Len(c.weakCache) : Truthy(valueOf(deref(c.weakCache[i].value)))

\* an array of [key, value, state] tuples
Tuples(items) == [t |-> "array", items |-> items]

\* the state an iterator yields with an entry: this.#cacheEntryState.get(key)
\* || DEFAULT_ENTRY_STATE
stateOrDefault(cacheEntryState, key) ==
    IF MapGet(cacheEntryState, key) = Undefined THEN DEFAULT_ENTRY_STATE
    ELSE MapGet(cacheEntryState, key)

\* CacheImpl.entries run to its end with no other job in between: the tuples
\* it yields, or the error it throws at the first weak entry that does not
\* resolve
CacheEntries(c) ==
    IF ~entriesComplete(c) THEN IterationError
    ELSE Tuples([i \in 1..Len(c.weakCache) |->
            [key |-> c.weakCache[i].key,
             value |-> valueOf(deref(c.weakCache[i].value)),
             state |-> stateOrDefault(c.cacheEntryState, c.weakCache[i].key)]])

\* a save that keeps the last tuple only
saveEntryKeepingLast(arrayOfCacheEntryTuples, entry) ==
    <<[entry EXCEPT !.value = structuredClone(@)]>>

\* one turn of the loop of CacheImpl.save: the tuple of the entry, with a
\* clone of its value, is pushed
saveEntry(arrayOfCacheEntryTuples, entry) ==
    Append(arrayOfCacheEntryTuples, [entry EXCEPT !.value = structuredClone(@)])

\* a load that replaces what the cache holds: it clears before its first entry
loadEntryReplacing(c, max, entry, revisionCounter) ==
    LET clone == Object(NewObject(c, calls, entry.key),
                        structuredClone(entry.value))
        entityRevision == [entity |-> entry.value, revision |-> revisionCounter + 1]
        start == IF revisionCounter = 0
                 THEN [c EXCEPT !.weakCache = <<>>, !.lruCache = <<>>,
                                !.entryRevisions = <<>>]
                 ELSE c
    IN [weakCache |-> MapSet(start.weakCache, entry.key, WeakRef(clone)),
        lruCache |-> LruSet(start.lruCache, max, entry.key, clone),
        cacheEntryState |-> MapSet(start.cacheEntryState, entry.key, entry.state),
        entryRevisions |->
            appendOrSet(start.entryRevisions, entry.key, <<entityRevision>>)]

\* one turn of the loop of CacheImpl.load, for an entry whose value can be
\* cloned; revisionCounter counts the entries this call has loaded before.
\* The clone is a new object, given to the weak reference and to the LRU
\* tier.
loadEntry(c, max, entry, revisionCounter) ==
    LET clone == Object(NewObject(c, calls, entry.key),
                        structuredClone(entry.value))
        entityRevision == [entity |-> entry.value, revision |-> revisionCounter + 1]
    IN [weakCache |-> MapSet(c.weakCache, entry.key, WeakRef(clone)),
        lruCache |-> LruSet(c.lruCache, max, entry.key, clone),
        cacheEntryState |-> MapSet(c.cacheEntryState, entry.key, entry.state),
        entryRevisions |->
            appendOrSet(c.entryRevisions, entry.key, <<entityRevision>>)]

\* one turn of the loop of CacheImpl.clear
clearEntry(c, key) ==
    [c EXCEPT !.weakCache = MapDelete(c.weakCache, key),
              !.lruCache = MapDelete(c.lruCache, key),
              !.entryRevisions = MapDelete(c.entryRevisions, key)]

\* an install that writes the weak reference and the entry state and leaves
\* the LRU tier as it is
installEntryWeakly(c, max, entry) ==
    [c EXCEPT
       !.weakCache = MapSet(c.weakCache, entry.key,
                            WeakRef(Object(entry.id, entry.value))),
       !.cacheEntryState = MapSet(c.cacheEntryState, entry.key, entry.state)]

\* one turn of the first loop of CacheImpl.commitTransaction: the staged
\* clone, the object entry.id of its key, is given to the weak reference
\* and, when the state retains it, to the LRU tier
installEntry(c, max, entry) ==
    [c EXCEPT
       !.weakCache = MapSet(c.weakCache, entry.key,
                            WeakRef(Object(entry.id, entry.value))),
       !.cacheEntryState = MapSet(c.cacheEntryState, entry.key, entry.state),
       !.lruCache = IF retainedLru(entry.state)
                    THEN LruSet(c.lruCache, max, entry.key,
                                Object(entry.id, entry.value))
                    ELSE c.lruCache]

\* one turn of the second loop of CacheImpl.commitTransaction
installRevisions(c, cacheKey, revision) ==
    [c EXCEPT !.entryRevisions = appendOrSet(c.entryRevisions, cacheKey, revision)]

-----------------------------------------------------------------------------
(* Inputs of the application *)

\* entities passed to load
LoadValues == {Obj2(2, 2), Obj1("b", 1)}

LoadEntry == {[key |-> k, value |-> v, state |-> Undefined] :
                 k \in Keys, v \in LoadValues}

\* the arrays passed to load: one entry, or one entry for each key
LoadInputs ==
    {<<e>> : e \in LoadEntry}
    \cup {<<[key |-> "k1", value |-> Obj2(2, 2), state |-> Undefined],
            [key |-> "k2", value |-> Obj2(2, 2), state |-> Undefined]>>}

\* entities passed to set
SetValues == {Obj1("a", 1), Obj2(2, 2)}

\* revisions passed to merge
MergeRevisions ==
    {[entity |-> Obj1("b", 1), revision |-> 2, revisionContext |-> Undefined]}

\* hooks.entitymergeStrategy: not configured, a strategy that returns
\* undefined, or an async strategy that awaits forever
EntityMergeHooks == {"none", "undefined", "pending"}

-----------------------------------------------------------------------------
(* LiveCacheTransactionImpl *)

\* a strategy that lets the incoming entity replace the current one
mergeStrategyReplacing(opts, entityRevision, current) == entityRevision.entity

\* the strategy merge and commit call: the configured hook, else
\* defaultMergeStrategy = deepMerge(current, entity).  The result is used as
\* it is returned: the call is not awaited.
mergeStrategy(opts, entityRevision, current) ==
    IF opts.entitymergeStrategy = "none"
    THEN deepMerge(current, entityRevision.entity)
    ELSE IF opts.entitymergeStrategy = "undefined" THEN Undefined
    ELSE Pending

\* LiveCacheTransactionImpl.beginLiveTransaction: the revisions kept for one
\* key (each revision of the log replaces the one kept before it)
RECURSIVE keptRevisions(_, _, _)
keptRevisions(revisions, i, kept) ==
    IF i > Len(revisions) THEN kept
    ELSE keptRevisions(revisions, i + 1, <<revisions[i]>>)

\* one turn of the loop of beginLiveTransaction: the copy of the entry that
\* goes into the snapshot map
snapshotEntry(transactionalCache, entry) ==
    MapSet(transactionalCache, entry.key, ShallowCopy(entry.value))

\* one turn of the loop of beginLiveTransaction: the revisions of the key the
\* cache holds now, of which the last one is kept
snapshotRevisions(entryRevisions, c, key) ==
    LET kept == keptRevisions(CacheEntryRevisions(c, key), 1, <<>>)
    IN IF kept = <<>> THEN entryRevisions ELSE MapSet(entryRevisions, key, kept)

\* LiveCacheTransactionImpl.get: the value returned
TxGet(t, cacheKey) == MapGet(t.transactionalCache, cacheKey)

\* a set that records the write for commit only, not in the view get reads
TxSetOverlayOnly(t, cacheKey, value, time) ==
    [t EXCEPT
       !.localUpdatedEntries = MapSet(t.localUpdatedEntries, cacheKey, value),
       !.cacheEntryState =
           MapSet(t.cacheEntryState, cacheKey, TouchedState(DefaultTtl, time))]

\* LiveCacheTransactionImpl.set
TxSet(t, cacheKey, value, time) ==
    [t EXCEPT
       !.transactionalCache = MapSet(t.transactionalCache, cacheKey, value),
       !.localUpdatedEntries = MapSet(t.localUpdatedEntries, cacheKey, value),
       !.cacheEntryState =
           MapSet(t.cacheEntryState, cacheKey, TouchedState(DefaultTtl, time))]

\* LiveCacheTransactionImpl.localRevisions / entryRevisions: what they yield
TxLocalRevisions(t, cacheKey) ==
    IF MapHas(t.localRevisions, cacheKey) THEN MapGet(t.localRevisions, cacheKey)
    ELSE <<>>

TxEntryRevisions(t, cacheKey) ==
    (IF MapHas(t.entryRevisions, cacheKey) THEN MapGet(t.entryRevisions, cacheKey)
     ELSE <<>>) \o TxLocalRevisions(t, cacheKey)

\* the push-or-set of one revision onto #localRevisions
pushLocalRevision(t, cacheKey, revision) ==
    [t EXCEPT !.localRevisions =
        appendOrSet(t.localRevisions, cacheKey, <<revision>>)]

\* a merge that sets the merged entity and records no revision
TxMergeUnrecorded(opts, t, cacheKey, entityRevision, time) ==
    TxSet(t, cacheKey,
          mergeStrategy(opts, entityRevision, MapGet(t.transactionalCache, cacheKey)),
          time)

\* LiveCacheTransactionImpl.merge
TxMerge(opts, t, cacheKey, entityRevision, time) ==
    LET currentValue == MapGet(t.transactionalCache, cacheKey)
        mergedEntity == mergeStrategy(opts, entityRevision, currentValue)
        revision == [entity |-> mergedEntity,
                     revision |-> entityRevision.revision,
                     revisionContext |-> entityRevision.revisionContext]
    IN pushLocalRevision(TxSet(t, cacheKey, mergedEntity, time), cacheKey, revision)

\* LiveCacheTransactionImpl.delete
TxDelete(t, cacheKey) ==
    [t EXCEPT
       !.transactionalCache = MapDelete(t.transactionalCache, cacheKey),
       !.localUpdatedEntries = MapDelete(t.localUpdatedEntries, cacheKey)]

\* CommittingTransactionImpl.cache.appendRevisions
appendRevisions(mergedRevisions, id, revisions) ==
    appendOrSet(mergedRevisions, id, revisions)

\* defaultRevisionStrategy (retainAllRevisions), past its loop: the
\* revisions it has collected are appended
defaultRevisionStrategy(t, id, revisions) ==
    [t EXCEPT !.mergedRevisions = appendRevisions(t.mergedRevisions, id, revisions)]

\* the revision number commit gives the committed entity
nextRevisionNumber(t, cacheKey) ==
    LET localRevisions == TxLocalRevisions(t, cacheKey)
    IN (IF Len(localRevisions) > 0
           /\ localRevisions[Len(localRevisions)].revision # 0
        THEN localRevisions[Len(localRevisions)].revision ELSE 0) + 1

\* a commit that installs the local value as it is, without merging it with
\* the value the cache holds
entityToCommitLocal(opts, latestCacheValue, value) == value

\* what one turn of the commit loop commits: the merge of the value the
\* iterator yielded against the value cache.get returned
entityToCommit(opts, latestCacheValue, value) ==
    IF Truthy(latestCacheValue)
    THEN mergeStrategy(opts, [entity |-> value, revision |-> 3], latestCacheValue)
    ELSE value

-----------------------------------------------------------------------------
(* Iterators of live Maps *)

\* what an iterator holds before its first entry
NoEntry == [key |-> "none", value |-> Undefined, state |-> Undefined]

\* the calls whose for await loop runs over CacheImpl.entries()
Iterating == {"clear", "begin", "save", "entries"}

\* the phases of such a call in which its Map iterator is alive
WeakCacheWalk == {"deref", "body", "next"}

\* the iterator over #weakCache of a call moves on: it reads the next key,
\* or finds the Map exhausted
weakCacheNext(call, weakCache) ==
    IF call.it < Len(weakCache)
    THEN [call EXCEPT !.pc = "deref", !.it = @ + 1, !.held = 0,
                      !.entry = [NoEntry EXCEPT !.key = weakCache[call.it + 1].key]]
    ELSE [call EXCEPT !.pc = "done", !.held = 0]

\* Map.prototype.delete under a live iterator: an iterator that has passed
\* the deleted entry keeps its place among the entries that remain
weakCacheDeleted(call, index) ==
    IF call.op \in Iterating /\ call.pc \in WeakCacheWalk
       /\ index # 0 /\ index <= call.it
    THEN [call EXCEPT !.it = @ - 1]
    ELSE call

\* the phases of a commit in which its iterator over #localUpdatedEntries is
\* alive
LocalEntriesWalk == {"get", "stage", "collect", "append", "next"}

\* LiveCacheTransactionImpl[Symbol.asyncIterator] over #localUpdatedEntries
\* moves on: it reads the next key, value and state, or finds the Map
\* exhausted
localEntriesNext(call, t) ==
    IF call.it < Len(t.localUpdatedEntries)
    THEN [call EXCEPT
            !.pc = "get", !.it = @ + 1, !.held = 0,
            !.entry = [key |-> t.localUpdatedEntries[call.it + 1].key,
                       value |-> t.localUpdatedEntries[call.it + 1].value,
                       state |-> stateOrDefault(t.cacheEntryState,
                                     t.localUpdatedEntries[call.it + 1].key)]]
    ELSE [call EXCEPT !.pc = "commitTransaction", !.held = 0]

localEntriesDeleted(call, t, index) ==
    IF call.op = "commit" /\ call.t = t /\ call.pc \in LocalEntriesWalk
       /\ index # 0 /\ index <= call.it
    THEN [call EXCEPT !.it = @ - 1]
    ELSE call

\* the iterator over the Map mergedRevisions() returned moves on: it reads
\* the next key and the array stored under it, or finds the Map exhausted
mergedRevisionsNext(call, t) ==
    IF call.it < Len(t.mergedRevisions)
    THEN [call EXCEPT !.pc = "revs", !.it = @ + 1,
                      !.revision = t.mergedRevisions[call.it + 1]]
    ELSE [call EXCEPT !.pc = "done"]

-----------------------------------------------------------------------------
(* Initial state: buildCache(options) *)

OptionsOf(lru, entityHook, revisionHook) ==
    [lru |-> lru, entitymergeStrategy |-> entityHook,
     revisionMergeStrategy |-> revisionHook]

InitState(limit) ==
    /\ cache = EmptyCache
    /\ tx = [t \in Txs |-> NoTx]
    /\ calls = [c \in Calls |-> NoCall]
    /\ now = 1
    /\ net = NoTracking
    /\ app = [calls |-> 0, limit |-> limit]

\* no hooks configured
Init ==
    /\ InitState(MaxOps)
    /\ \E lru \in 0..MaxLruOption : options = OptionsOf(lru, "none", FALSE)

-----------------------------------------------------------------------------
(* Calls of the application *)

Called == /\ app.calls < app.limit
          /\ app' = [app EXCEPT !.calls = @ + 1]

\* cache.load(entries) up to its first await: nothing is loaded yet.  script
\* tells a call the save-clear-load sequence of the application makes; threw
\* tells that the call has thrown: its promise will reject.
loadCall(entries, script) ==
    [op |-> "load", pc |-> IF entries = <<>> THEN "done" ELSE "body",
     entries |-> entries, revisionCounter |-> 0, script |-> script,
     threw |-> FALSE]

\* cache.clear() up to its first await: the iterator has read the first key.
\* held is the id of the object of the key of entry that the call holds in
\* a variable of its loop, 0 when it holds none.
clearCall(script) ==
    weakCacheNext([op |-> "clear", pc |-> "done", it |-> 0, entry |-> NoEntry,
                   held |-> 0, script |-> script, threw |-> FALSE],
                  cache.weakCache)

\* cache.save() up to its first await
saveCall(script) ==
    weakCacheNext([op |-> "save", pc |-> "done", it |-> 0, entry |-> NoEntry,
                   held |-> 0, script |-> script, threw |-> FALSE,
                   arrayOfCacheEntryTuples |-> <<>>],
                  cache.weakCache)

\* for await (const entry of cache.entries()) up to its first await; yielded
\* records the entries the loop of the application has received
entriesCall ==
    weakCacheNext([op |-> "entries", pc |-> "done", it |-> 0, entry |-> NoEntry,
                   held |-> 0, script |-> FALSE, threw |-> FALSE,
                   yielded |-> <<>>],
                  cache.weakCache)

\* cache.beginTransaction() up to its first await
beginCall(t) ==
    weakCacheNext([op |-> "begin", pc |-> "done", it |-> 0, entry |-> NoEntry,
                   held |-> 0, script |-> FALSE, threw |-> FALSE, t |-> t,
                   transactionalCache |-> <<>>, entryRevisions |-> <<>>,
                   atBegin |-> [k \in AllKeys |-> CacheGet(cache, k)],
                   begunAfter |-> {u \in Txs : tx[u].pc = "resolved"}],
                  cache.weakCache)

\* tx.commit() up to its first await: localEntries() has yielded the first
\* local entry.  n numbers the commit calls of the transaction; latest is
\* what cache.get returned and held the id of that object, staged is
\* trasactionCacheEntries, revisions what defaultRevisionStrategy has
\* collected, revision the [cacheKey, revision] pair the second loop of
\* commitTransaction is at.
commitCall(t) ==
    localEntriesNext([op |-> "commit", t |-> t, n |-> tx[t].commits + 1,
                      pc |-> "commitTransaction", it |-> 0, entry |-> NoEntry,
                      held |-> 0, script |-> FALSE, threw |-> FALSE,
                      latest |-> Undefined, staged |-> <<>>, revisions |-> <<>>,
                      revision |-> [key |-> "none", value |-> <<>>]],
                     tx[t])

\* new LiveCacheTransactionImpl(originalCache, transactionalCache, entryRevisions)
newLiveCacheTransaction(call) ==
    [NoTx EXCEPT !.live = TRUE,
                 !.transactionalCache = call.transactionalCache,
                 !.entryRevisions = call.entryRevisions,
                 !.atBegin = call.atBegin,
                 !.atResolve = [k \in AllKeys |-> CacheGet(cache, k)],
                 !.begunAfter = call.begunAfter]

\* the promise of a commit call settles: the transaction records the
\* outcome of its last commit call and, for the properties, the entries
\* that call had staged (not which objects the clones were)
settled(t, call, outcome) ==
    IF call.n = t.commits
    THEN [t EXCEPT !.pc = outcome,
                   !.staged = [i \in 1..Len(call.staged) |->
                                 [call.staged[i] EXCEPT !.id = 0]]]
    ELSE t

\* cache.load(entries)
Load(entries) ==
    /\ Called
    /\ HasFreeCall
    /\ calls' = [calls EXCEPT ![FreeCall] = loadCall(entries, FALSE)]
    /\ UNCHANGED <<cache, tx, net, options, now>>

\* cache.clear()
Clear ==
    /\ Called
    /\ HasFreeCall
    /\ calls' = [calls EXCEPT ![FreeCall] = clearCall(FALSE)]
    /\ UNCHANGED <<cache, tx, net, options, now>>

\* cache.beginTransaction().  Transactions are named in the order in which
\* beginTransaction is called.
Begin(t) ==
    /\ Called
    /\ HasFreeCall
    /\ ~tx[t].live
    /\ \A c \in Calls : calls[c].op = "begin" => calls[c].t # t
    /\ t = "t2" => \/ tx["t1"].live
                   \/ \E c \in Calls : calls[c].op = "begin" /\ calls[c].t = "t1"
    /\ calls' = [calls EXCEPT ![FreeCall] = beginCall(t)]
    /\ UNCHANGED <<cache, tx, net, options, now>>

\* a get that also records the value it read as a local entry
GetWritingBack(t, cacheKey) ==
    /\ Called
    /\ tx[t].live
    /\ tx' = IF Truthy(TxGet(tx[t], cacheKey))
             THEN [tx EXCEPT ![t] =
                     TxSet(tx[t], cacheKey, TxGet(tx[t], cacheKey), now)]
             ELSE tx
    /\ UNCHANGED <<cache, calls, net, options, now>>

\* tx.get(cacheKey)
Get(t, cacheKey) ==
    /\ Called
    /\ tx[t].live
    /\ tx' = IF Truthy(TxGet(tx[t], cacheKey))
             THEN [tx EXCEPT ![t].cacheEntryState =
                     MapSet(@, cacheKey, TouchedState(DefaultTtl, now))]
             ELSE tx
    /\ UNCHANGED <<cache, calls, net, options, now>>

\* a set that also installs the value in the primary cache
SetWriteThrough(t, cacheKey, value) ==
    /\ Called
    /\ tx[t].live
    /\ tx' = [tx EXCEPT ![t] =
                [TxSet(tx[t], cacheKey, value, now) EXCEPT
                   !.touched = @ \cup {cacheKey}, !.lastSet[cacheKey] = value]]
    /\ cache' = installEntry(cache, lruPolicyOf(options),
                             [key |-> cacheKey, value |-> value,
                              id |-> NewObject(cache, calls, cacheKey),
                              state |-> TouchedState(DefaultTtl, now)])
    /\ UNCHANGED <<calls, net, options, now>>

\* tx.set(cacheKey, value)
Set(t, cacheKey, value) ==
    /\ Called
    /\ tx[t].live
    /\ tx' = [tx EXCEPT ![t] =
                [TxSet(tx[t], cacheKey, value, now) EXCEPT
                   !.touched = @ \cup {cacheKey}, !.lastSet[cacheKey] = value]]
    /\ UNCHANGED <<cache, calls, net, options, now>>

\* tx.delete(cacheKey); the iterators of its commits in flight keep their
\* place in #localUpdatedEntries
Delete(t, cacheKey) ==
    /\ Called
    /\ tx[t].live
    /\ tx' = [tx EXCEPT ![t] =
                [TxDelete(tx[t], cacheKey) EXCEPT
                   !.touched = @ \cup {cacheKey}, !.lastSet[cacheKey] = Absent]]
    /\ calls' = [c \in Calls |->
                   localEntriesDeleted(calls[c], t,
                       MapIndex(tx[t].localUpdatedEntries, cacheKey))]
    /\ UNCHANGED <<cache, net, options, now>>

\* tx.merge(cacheKey, entityRevision)
Merge(t, cacheKey, entityRevision) ==
    /\ Called
    /\ tx[t].live
    /\ tx' = [tx EXCEPT ![t] =
                [TxMerge(options, tx[t], cacheKey, entityRevision, now) EXCEPT
                   !.touched = @ \cup {cacheKey}, !.lastSet[cacheKey] = Absent]]
    /\ UNCHANGED <<cache, calls, net, options, now>>

\* tx.commit(): a commit in flight does not keep the next one from starting
Commit(t) ==
    /\ Called
    /\ HasFreeCall
    /\ tx[t].live
    /\ calls' = [calls EXCEPT ![FreeCall] = commitCall(t)]
    /\ tx' = [tx EXCEPT ![t].pc = "pending", ![t].staged = <<>>,
                        ![t].commits = @ + 1,
                        ![t].after = {u \in Txs : tx[u].pc = "resolved"},
                        ![t].asked = MapKeys(tx[t].localUpdatedEntries)]
    /\ UNCHANGED <<cache, net, options, now>>

-----------------------------------------------------------------------------
(* Promise jobs of a load in flight *)

\* one turn of the loop of CacheImpl.load; a value that cannot be cloned
\* makes the call throw, the entries before it stay loaded
LoadStep(c) ==
    /\ calls[c].op = "load"
    /\ calls[c].pc = "body"
    /\ LET entry == calls[c].entries[calls[c].revisionCounter + 1]
       IN IF structuredClone(entry.value) = CloneError
          THEN /\ cache' = cache
               /\ calls' = [calls EXCEPT ![c].pc = "done", ![c].threw = TRUE]
          ELSE /\ cache' = loadEntry(cache, lruPolicyOf(options), entry,
                                     calls[c].revisionCounter)
               /\ calls' = [calls EXCEPT
                              ![c].revisionCounter = @ + 1,
                              ![c].pc = IF calls[c].revisionCounter + 1
                                             = Len(calls[c].entries)
                                        THEN "done" ELSE "body"]
    /\ UNCHANGED <<tx, net, options, now, app>>

-----------------------------------------------------------------------------
(* Promise jobs of a call that iterates the cache *)

\* CacheImpl[Symbol.asyncIterator] resumes with the key it has read: it
\* dereferences the entry and yields it with its state, or throws, which
\* ends the loop of the call that iterates
AsyncIteratorStep(c) ==
    /\ calls[c].op \in Iterating
    /\ calls[c].pc = "deref"
    /\ LET key == calls[c].entry.key
           valueRef == deref(MapGet(cache.weakCache, key))
       IN calls' = IF Truthy(valueOf(valueRef))
                   THEN [calls EXCEPT
                           ![c].pc = "body",
                           ![c].held = valueRef.id,
                           ![c].entry =
                               [key |-> key, value |-> valueRef.value,
                                state |-> stateOrDefault(cache.cacheEntryState,
                                                         key)]]
                   ELSE [calls EXCEPT ![c].pc = "done", ![c].threw = TRUE]
    /\ UNCHANGED <<cache, tx, net, options, now, app>>

\* one turn of the loop of CacheImpl.clear, up to the next read of its
\* iterator
ClearStep(c) ==
    /\ calls[c].op = "clear"
    /\ calls[c].pc = "body"
    /\ LET key == calls[c].entry.key
           moved == [d \in Calls |->
                       weakCacheDeleted(calls[d], MapIndex(cache.weakCache, key))]
       IN /\ cache' = clearEntry(cache, key)
          /\ calls' = [moved EXCEPT
                         ![c] = weakCacheNext(moved[c],
                                              clearEntry(cache, key).weakCache)]
    /\ UNCHANGED <<tx, net, options, now, app>>

\* one turn of the loop of CacheImpl.save, up to the next read of its
\* iterator
SaveStep(c) ==
    /\ calls[c].op = "save"
    /\ calls[c].pc = "body"
    /\ calls' = [calls EXCEPT
                   ![c] = weakCacheNext(
                              [calls[c] EXCEPT
                                 !.arrayOfCacheEntryTuples =
                                     saveEntry(@, calls[c].entry)],
                              cache.weakCache)]
    /\ UNCHANGED <<cache, tx, net, options, now, app>>

\* one turn of the loop of the application over cache.entries(), up to the
\* next read of the iterator
EntriesStep(c) ==
    /\ calls[c].op = "entries"
    /\ calls[c].pc = "body"
    /\ calls' = [calls EXCEPT
                   ![c] = weakCacheNext(
                              [calls[c] EXCEPT
                                 !.yielded = Append(@, calls[c].entry)],
                              cache.weakCache)]
    /\ UNCHANGED <<cache, tx, net, options, now, app>>

\* one turn of the loop of beginLiveTransaction: the entry is copied into
\* the snapshot and the revisions of its key are read from the cache
BeginStep(c) ==
    /\ calls[c].op = "begin"
    /\ calls[c].pc = "body"
    /\ calls' = [calls EXCEPT
                   ![c].pc = "next",
                   ![c].held = 0,
                   ![c].transactionalCache = snapshotEntry(@, calls[c].entry),
                   ![c].entryRevisions =
                       snapshotRevisions(@, cache, calls[c].entry.key)]
    /\ UNCHANGED <<cache, tx, net, options, now, app>>

\* the inner loop of beginLiveTransaction is over: the iterator of the cache
\* reads its next key, or finds the Map exhausted
BeginNext(c) ==
    /\ calls[c].op = "begin"
    /\ calls[c].pc = "next"
    /\ calls' = [calls EXCEPT ![c] = weakCacheNext(calls[c], cache.weakCache)]
    /\ UNCHANGED <<cache, tx, net, options, now, app>>

-----------------------------------------------------------------------------
(* Promise jobs of a commit in flight *)

\* the body of the loop over localEntries() starts: cache.get is called and
\* dereferences the entry of the cache
CommitGet(c) ==
    /\ calls[c].op = "commit"
    /\ calls[c].pc = "get"
    /\ LET latestCacheValue == deref(MapGet(cache.weakCache, calls[c].entry.key))
       IN calls' = [calls EXCEPT
                      ![c].pc = "stage",
                      ![c].latest = valueOf(latestCacheValue),
                      ![c].held = IF latestCacheValue = Undefined THEN 0
                                  ELSE latestCacheValue.id]
    /\ UNCHANGED <<cache, tx, net, options, now, app>>

\* the body goes on past await cache.get: the entry is merged, cloned and
\* staged, its revision is pushed onto the local revisions and the revision
\* strategy is called; a value that cannot be cloned makes the commit throw.
\* With hooks.revisionMergeStrategy configured the strategy is a function
\* that returns the hook without calling it.  A staged entry is [key, value,
\* state], id tells which object the clone is; local and latest keep, for
\* the properties, the value the iterator yielded and the value cache.get
\* gave.
CommitStage(c) ==
    /\ calls[c].op = "commit"
    /\ calls[c].pc = "stage"
    /\ LET t == calls[c].t
           entry == calls[c].entry
           toCommit == entityToCommit(options, calls[c].latest, entry.value)
           structuredClonedValue == structuredClone(toCommit)
           entityRevision == [entity |-> toCommit,
                              revision |-> nextRevisionNumber(tx[t], entry.key)]
       IN IF structuredClonedValue = CloneError
          THEN /\ calls' = [calls EXCEPT ![c].pc = "done", ![c].threw = TRUE,
                                         ![c].held = 0]
               /\ tx' = tx
          ELSE /\ calls' = [calls EXCEPT
                              ![c].pc = IF options.revisionMergeStrategy
                                        THEN "next" ELSE "collect",
                              ![c].held = 0,
                              ![c].staged =
                                  Append(@, [key |-> entry.key,
                                             value |-> structuredClonedValue,
                                             id |-> NewObject(cache, calls,
                                                              entry.key),
                                             state |-> entry.state,
                                             local |-> entry.value,
                                             latest |-> calls[c].latest])]
               /\ tx' = [tx EXCEPT ![t] =
                           pushLocalRevision(tx[t], entry.key, entityRevision)]
    /\ UNCHANGED <<cache, net, options, now, app>>

\* the loop of defaultRevisionStrategy over the local revisions of the key
\* ends: it has collected what the array holds now
CommitCollect(c) ==
    /\ calls[c].op = "commit"
    /\ calls[c].pc = "collect"
    /\ calls' = [calls EXCEPT
                   ![c].pc = "append",
                   ![c].revisions =
                       TxLocalRevisions(tx[calls[c].t], calls[c].entry.key)]
    /\ UNCHANGED <<cache, tx, net, options, now, app>>

\* defaultRevisionStrategy appends the revisions it collected
CommitAppend(c) ==
    /\ calls[c].op = "commit"
    /\ calls[c].pc = "append"
    /\ calls' = [calls EXCEPT ![c].pc = "next"]
    /\ tx' = [tx EXCEPT ![calls[c].t] =
                defaultRevisionStrategy(tx[calls[c].t], calls[c].entry.key,
                                        calls[c].revisions)]
    /\ UNCHANGED <<cache, net, options, now, app>>

\* the body of the loop is over: localEntries() yields the next local entry
CommitNext(c) ==
    /\ calls[c].op = "commit"
    /\ calls[c].pc = "next"
    /\ calls' = [calls EXCEPT ![c] = localEntriesNext(calls[c], tx[calls[c].t])]
    /\ UNCHANGED <<cache, tx, net, options, now, app>>

\* the loop is over: commitTransaction is called and sorts the staged entries
CommitTransaction(c) ==
    /\ calls[c].op = "commit"
    /\ calls[c].pc = "commitTransaction"
    /\ calls' = [calls EXCEPT ![c].pc = "install", ![c].it = 0,
                              ![c].staged = sortEntries(@)]
    /\ UNCHANGED <<cache, tx, net, options, now, app>>

\* one turn of the loop over the sorted entries in commitTransaction; past
\* the last one the iterator over the merged revisions reads its first entry
CommitInstallStep(c) ==
    /\ calls[c].op = "commit"
    /\ calls[c].pc = "install"
    /\ IF calls[c].it < Len(calls[c].staged)
       THEN /\ cache' = installEntry(cache, lruPolicyOf(options),
                                     calls[c].staged[calls[c].it + 1])
            /\ calls' = [calls EXCEPT ![c].it = @ + 1]
       ELSE /\ cache' = cache
            /\ calls' = [calls EXCEPT
                           ![c] = mergedRevisionsNext([calls[c] EXCEPT !.it = 0],
                                                      tx[calls[c].t])]
    /\ UNCHANGED <<tx, net, options, now, app>>

\* one turn of the loop over the merged revisions in commitTransaction, up to
\* the next read of its iterator
CommitRevisionStep(c) ==
    /\ calls[c].op = "commit"
    /\ calls[c].pc = "revs"
    /\ cache' = installRevisions(cache, calls[c].revision.key,
                                 calls[c].revision.value)
    /\ calls' = [calls EXCEPT
                   ![c] = mergedRevisionsNext(calls[c], tx[calls[c].t])]
    /\ UNCHANGED <<tx, net, options, now, app>>

-----------------------------------------------------------------------------
(* The promise of a call settles *)

\* what the application has of a call of its own when the promise settles:
\* the array of save, the entries its loop over entries() received, or the
\* error of the iterator; a save-clear-load sequence ends with its load or
\* with the first call of it that rejects
received(a, call) ==
    IF call.script
    THEN IF call.threw
         THEN [a EXCEPT !.script = "none", !.last = "restore",
                        !.result = IF call.op = "load" THEN @ ELSE IterationError]
         ELSE IF call.op = "load" THEN [a EXCEPT !.last = "restore"]
         ELSE IF call.op = "save"
         THEN [a EXCEPT !.result = Tuples(call.arrayOfCacheEntryTuples)]
         ELSE a
    ELSE IF call.op \notin {"save", "entries"} THEN a
    ELSE IF call.threw
    THEN [a EXCEPT !.last = call.op, !.result = IterationError]
    ELSE IF call.op = "save"
    THEN [a EXCEPT !.last = "save",
                   !.result = Tuples(call.arrayOfCacheEntryTuples)]
    ELSE [a EXCEPT !.last = "entries", !.result = Tuples(call.yielded)]

\* the loop of a call is over, or the call has thrown: the async functions
\* return to their callers and, some promise jobs after the last step of
\* the call, its promise resolves or rejects.  beginTransaction resolves
\* with the transaction constructed from what the loop has copied.
Settles(c) ==
    /\ calls[c].op # "none"
    /\ calls[c].pc = "done"
    /\ calls' = [calls EXCEPT ![c] = NoCall]
    /\ tx' = IF calls[c].op = "begin" /\ ~calls[c].threw
             THEN [tx EXCEPT ![calls[c].t] = newLiveCacheTransaction(calls[c])]
             ELSE IF calls[c].op = "commit"
             THEN [tx EXCEPT ![calls[c].t] =
                     settled(tx[calls[c].t], calls[c],
                             IF calls[c].threw THEN "rejected" ELSE "resolved")]
             ELSE tx
    /\ app' = received(app, calls[c])
    /\ UNCHANGED <<cache, net, options, now>>

-----------------------------------------------------------------------------
(* The host *)

\* the LRU tier holds the object the weak reference of cacheKey points to
StronglyHeld(c, cacheKey) ==
    /\ MapHas(c.lruCache, cacheKey)
    /\ MapGet(c.lruCache, cacheKey).id = MapGet(c.weakCache, cacheKey).target.id

\* a call in flight holds the object the weak reference of cacheKey points
\* to: a call that iterates the cache holds the object its iterator has
\* dereferenced while the body of its loop runs, a commit holds the object
\* cache.get returned up to the clone, and, until it returns, the clones in
\* trasactionCacheEntries, which commitTransaction installs
HeldByCall(cacheKey) ==
    \E c \in Calls :
        \/ /\ calls[c].op \in Iterating /\ calls[c].pc = "body"
           /\ calls[c].entry.key = cacheKey
           /\ calls[c].held = MapGet(cache.weakCache, cacheKey).target.id
        \/ /\ calls[c].op = "commit" /\ calls[c].pc = "stage"
           /\ calls[c].entry.key = cacheKey
           /\ calls[c].held = MapGet(cache.weakCache, cacheKey).target.id
        \/ /\ calls[c].op = "commit" /\ calls[c].pc # "done"
           /\ \E i \in 1..Len(calls[c].staged) :
                 /\ calls[c].staged[i].key = cacheKey
                 /\ calls[c].staged[i].id
                       = MapGet(cache.weakCache, cacheKey).target.id

\* the save-clear-load sequence of the application is under way
Restoring ==
    /\ "script" \in DOMAIN app
    /\ \/ app.script # "none"
       \/ \E c \in Calls : calls[c].op # "none" /\ calls[c].script

\* garbage collection clears a weak reference whose target nothing else
\* holds; it runs between any two jobs, also while calls are in flight.
\* reclaimed records, for the properties, that it ran during the
\* save-clear-load sequence of the application.
Reclaim(cacheKey) ==
    /\ MapHas(cache.weakCache, cacheKey)
    /\ ~MapGet(cache.weakCache, cacheKey).cleared
    /\ ~StronglyHeld(cache, cacheKey)
    /\ ~HeldByCall(cacheKey)
    /\ cache' = [cache EXCEPT !.weakCache = MapSet(@, cacheKey, ClearedRef)]
    /\ app' = IF Restoring THEN [app EXCEPT !.reclaimed = TRUE] ELSE app
    /\ UNCHANGED <<tx, calls, net, options, now>>

\* some transaction has stamped an entry state with the time t
Stamped(t) ==
    \E u \in Txs : \E i \in 1..Len(tx[u].cacheEntryState) :
        lastAccessedOf(tx[u].cacheEntryState[i].value) = t

\* the clock advances.  The program reads the clock only to stamp entry
\* states and only compares stamps, so a millisecond in which nothing was
\* stamped is not told apart from no time passing: the clock is advanced
\* past stamped milliseconds only.
Advance(limit) ==
    /\ now < limit
    /\ Stamped(now)
    /\ now' = now + 1
    /\ UNCHANGED <<cache, tx, calls, net, options, app>>

Tick == Advance(MaxTime)

\* the application makes any call at any time, whatever is in flight
Next ==
    \/ \E entries \in LoadInputs : Load(entries)
    \/ Clear
    \/ \E t \in Txs : Begin(t)
    \/ \E t \in Txs, k \in Keys : Get(t, k)
    \/ \E t \in Txs, k \in Keys, v \in SetValues : Set(t, k, v)
    \/ \E t \in Txs, k \in Keys : Delete(t, k)
    \/ \E t \in Txs, k \in Keys, r \in MergeRevisions : Merge(t, k, r)
    \/ \E t \in Txs : Commit(t)
    \/ \E c \in Calls : LoadStep(c)
    \/ \E c \in Calls : AsyncIteratorStep(c)
    \/ \E c \in Calls : ClearStep(c)
    \/ \E c \in Calls : BeginStep(c)
    \/ \E c \in Calls : BeginNext(c)
    \/ \E c \in Calls : CommitGet(c)
    \/ \E c \in Calls : CommitStage(c)
    \/ \E c \in Calls : CommitCollect(c)
    \/ \E c \in Calls : CommitAppend(c)
    \/ \E c \in Calls : CommitNext(c)
    \/ \E c \in Calls : CommitTransaction(c)
    \/ \E c \in Calls : CommitInstallStep(c)
    \/ \E c \in Calls : CommitRevisionStep(c)
    \/ \E c \in Calls : Settles(c)
    \/ \E k \in Keys : Reclaim(k)
    \/ Tick

Spec == Init /\ [][Next]_vars

-----------------------------------------------------------------------------
(* Scenarios *)

\* a beginTransaction call is in flight
Beginning == \E c \in Calls : calls[c].op = "begin"

\* the application awaits beginTransaction: it calls it when nothing is in
\* flight and makes no other call before it has resolved; every other call
\* it makes at any time
NextIsolation ==
    \/ \E entries \in LoadInputs : ~Beginning /\ Load(entries)
    \/ ~Beginning /\ Clear
    \/ \E t \in Txs : Quiescent /\ Begin(t)
    \/ \E t \in Txs, k \in Keys : ~Beginning /\ Get(t, k)
    \/ \E t \in Txs, k \in Keys, v \in SetValues : ~Beginning /\ Set(t, k, v)
    \/ \E t \in Txs, k \in Keys : ~Beginning /\ Delete(t, k)
    \/ \E t \in Txs, k \in Keys, r \in MergeRevisions :
          ~Beginning /\ Merge(t, k, r)
    \/ \E t \in Txs : ~Beginning /\ Commit(t)
    \/ \E c \in Calls : LoadStep(c)
    \/ \E c \in Calls : AsyncIteratorStep(c)
    \/ \E c \in Calls : ClearStep(c)
    \/ \E c \in Calls : BeginStep(c)
    \/ \E c \in Calls : BeginNext(c)
    \/ \E c \in Calls : CommitGet(c)
    \/ \E c \in Calls : CommitStage(c)
    \/ \E c \in Calls : CommitCollect(c)
    \/ \E c \in Calls : CommitAppend(c)
    \/ \E c \in Calls : CommitNext(c)
    \/ \E c \in Calls : CommitTransaction(c)
    \/ \E c \in Calls : CommitInstallStep(c)
    \/ \E c \in Calls : CommitRevisionStep(c)
    \/ \E c \in Calls : Settles(c)
    \/ \E k \in Keys : Reclaim(k)
    \/ Tick

SpecIsolation == Init /\ [][NextIsolation]_vars

\* the entity a writing transaction sets
WriterValue(t) == IF t = "t1" THEN Obj2(2, 2) ELSE Obj1("a", 1)

\* the application only begins transactions, sets and commits: the cache has
\* a small LRU tier, each transaction writes one entity, and each call is
\* awaited before the next one
InitWriters ==
    /\ InitState(MaxWriterOps)
    /\ options = OptionsOf(1, "none", FALSE)

NextWriters ==
    \/ \E t \in Txs : Quiescent /\ Begin(t)
    \/ \E t \in Txs, k \in Keys : Quiescent /\ Set(t, k, WriterValue(t))
    \/ \E t \in Txs : Quiescent /\ Commit(t)
    \/ \E c \in Calls : AsyncIteratorStep(c)
    \/ \E c \in Calls : BeginStep(c)
    \/ \E c \in Calls : BeginNext(c)
    \/ \E c \in Calls : CommitGet(c)
    \/ \E c \in Calls : CommitStage(c)
    \/ \E c \in Calls : CommitCollect(c)
    \/ \E c \in Calls : CommitAppend(c)
    \/ \E c \in Calls : CommitNext(c)
    \/ \E c \in Calls : CommitTransaction(c)
    \/ \E c \in Calls : CommitInstallStep(c)
    \/ \E c \in Calls : CommitRevisionStep(c)
    \/ \E c \in Calls : Settles(c)
    \/ \E k \in Keys : Reclaim(k)
    \/ Tick

SpecWriters == InitWriters /\ [][NextWriters]_vars

\* a cache built with hooks: an entity-merge strategy that returns undefined
\* or that awaits forever, or a revision-merge strategy
InitHooks ==
    /\ InitState(MaxOps)
    /\ \E h \in {<<"undefined", FALSE>>, <<"pending", FALSE>>, <<"none", TRUE>>} :
          /\ h[1] \in EntityMergeHooks
          /\ options = OptionsOf(1, h[1], h[2])

SpecHooks == InitHooks /\ [][Next]_vars

\* a cache with an LRU tier of capacity 2 and one transaction, begun on the
\* empty cache, that sets keys at different times and commits, each call
\* awaited; the host reclaims what the tier has evicted
InitLru ==
    /\ InitState(MaxLruOps)
    /\ options = OptionsOf(2, "none", FALSE)

NextLru ==
    \/ Quiescent /\ Begin("t1")
    \/ \E k \in AllKeys : Quiescent /\ Set("t1", k, Obj1("a", 1))
    \/ Quiescent /\ Commit("t1")
    \/ \E c \in Calls : CommitGet(c)
    \/ \E c \in Calls : CommitStage(c)
    \/ \E c \in Calls : CommitCollect(c)
    \/ \E c \in Calls : CommitAppend(c)
    \/ \E c \in Calls : CommitNext(c)
    \/ \E c \in Calls : CommitTransaction(c)
    \/ \E c \in Calls : CommitInstallStep(c)
    \/ \E c \in Calls : CommitRevisionStep(c)
    \/ \E c \in Calls : Settles(c)
    \/ \E k \in AllKeys : Reclaim(k)
    \/ Advance(MaxLruTime)

SpecLru == InitLru /\ [][NextLru]_vars

\* the application uses the cache itself: it loads, saves, clears and
\* iterates a cache with an LRU tier of capacity 1 and writes to it through
\* one transaction, awaiting each call; the host reclaims what the tier has
\* evicted.  result records what the last entries() or save() call of the
\* application gave; script tells how far its save-clear-load sequence has
\* come; before keeps, for the properties, the cache as it was when the
\* sequence started, and reclaimed that the host has reclaimed an entry
\* since.
InitFacade ==
    /\ cache = EmptyCache
    /\ tx = [t \in Txs |-> NoTx]
    /\ calls = [c \in Calls |-> NoCall]
    /\ now = 1
    /\ net = NoTracking
    /\ app = [calls |-> 0, limit |-> MaxFacadeOps,
              last |-> "none", result |-> Undefined,
              script |-> "none", before |-> EmptyCache, reclaimed |-> FALSE]
    /\ options = OptionsOf(1, "none", FALSE)

\* the application is between two of its calls
FacadeIdle == Quiescent /\ app.script = "none"

\* for await (const entry of cache.entries()) { ... }
Entries ==
    /\ app.calls < app.limit
    /\ HasFreeCall
    /\ app' = [app EXCEPT !.calls = @ + 1, !.last = "none", !.result = Undefined]
    /\ calls' = [calls EXCEPT ![FreeCall] = entriesCall]
    /\ UNCHANGED <<cache, tx, net, options, now>>

\* cache.save()
Save ==
    /\ app.calls < app.limit
    /\ HasFreeCall
    /\ app' = [app EXCEPT !.calls = @ + 1, !.last = "none", !.result = Undefined]
    /\ calls' = [calls EXCEPT ![FreeCall] = saveCall(FALSE)]
    /\ UNCHANGED <<cache, tx, net, options, now>>

\* s = await cache.save(); await cache.clear(); await cache.load(s): the
\* application calls save
SaveClearLoad ==
    /\ app.calls < app.limit
    /\ HasFreeCall
    /\ app' = [app EXCEPT !.calls = @ + 1, !.last = "none",
                          !.result = Undefined, !.script = "clear",
                          !.before = cache, !.reclaimed = FALSE]
    /\ calls' = [calls EXCEPT ![FreeCall] = saveCall(TRUE)]
    /\ UNCHANGED <<cache, tx, net, options, now>>

\* the save of the sequence has resolved: the application calls clear
ThenClear ==
    /\ Quiescent
    /\ app.script = "clear"
    /\ app' = [app EXCEPT !.script = "load"]
    /\ calls' = [calls EXCEPT ![FreeCall] = clearCall(TRUE)]
    /\ UNCHANGED <<cache, tx, net, options, now>>

\* the clear of the sequence has resolved: the application calls load with
\* the array save returned
ThenLoad ==
    /\ Quiescent
    /\ app.script = "load"
    /\ app' = [app EXCEPT !.script = "none"]
    /\ calls' = [calls EXCEPT ![FreeCall] = loadCall(app.result.items, TRUE)]
    /\ UNCHANGED <<cache, tx, net, options, now>>

NextFacade ==
    \/ \E entries \in LoadInputs : FacadeIdle /\ Load(entries)
    \/ FacadeIdle /\ Clear
    \/ FacadeIdle /\ Entries
    \/ FacadeIdle /\ Save
    \/ FacadeIdle /\ SaveClearLoad
    \/ ThenClear
    \/ ThenLoad
    \/ FacadeIdle /\ Begin("t1")
    \/ \E k \in Keys : FacadeIdle /\ Set("t1", k, Obj1("a", 1))
    \/ FacadeIdle /\ Commit("t1")
    \/ \E c \in Calls : LoadStep(c)
    \/ \E c \in Calls : AsyncIteratorStep(c)
    \/ \E c \in Calls : ClearStep(c)
    \/ \E c \in Calls : SaveStep(c)
    \/ \E c \in Calls : EntriesStep(c)
    \/ \E c \in Calls : BeginStep(c)
    \/ \E c \in Calls : BeginNext(c)
    \/ \E c \in Calls : CommitGet(c)
    \/ \E c \in Calls : CommitStage(c)
    \/ \E c \in Calls : CommitCollect(c)
    \/ \E c \in Calls : CommitAppend(c)
    \/ \E c \in Calls : CommitNext(c)
    \/ \E c \in Calls : CommitTransaction(c)
    \/ \E c \in Calls : CommitInstallStep(c)
    \/ \E c \in Calls : CommitRevisionStep(c)
    \/ \E c \in Calls : Settles(c)
    \/ \E k \in Keys : Reclaim(k)
    \/ Tick

SpecFacade == InitFacade /\ [][NextFacade]_vars

\* the application works through one transaction, begun on the empty cache:
\* it sets and deletes keys, commits more than once, clears the cache, and
\* awaits each call; the LRU tier has the default capacity and holds every
\* entry, so the host reclaims nothing
InitSession ==
    /\ InitState(MaxSessionOps)
    /\ options = OptionsOf(0, "none", FALSE)

NextSession ==
    \/ Quiescent /\ Begin("t1")
    \/ \E k \in Keys : Quiescent /\ Set("t1", k, Obj1("a", 1))
    \/ \E k \in Keys : Quiescent /\ Delete("t1", k)
    \/ Quiescent /\ Commit("t1")
    \/ Quiescent /\ Clear
    \/ \E c \in Calls : AsyncIteratorStep(c)
    \/ \E c \in Calls : ClearStep(c)
    \/ \E c \in Calls : CommitGet(c)
    \/ \E c \in Calls : CommitStage(c)
    \/ \E c \in Calls : CommitCollect(c)
    \/ \E c \in Calls : CommitAppend(c)
    \/ \E c \in Calls : CommitNext(c)
    \/ \E c \in Calls : CommitTransaction(c)
    \/ \E c \in Calls : CommitInstallStep(c)
    \/ \E c \in Calls : CommitRevisionStep(c)
    \/ \E c \in Calls : Settles(c)
    \/ Tick

SpecSession == InitSession /\ [][NextSession]_vars

\* the application loads entries and works through transactions with the
\* default strategies: it sets, merges, deletes and commits, and awaits each
\* call; it never clears the cache, and the LRU tier of default capacity
\* holds every entry, so the host reclaims nothing
InitLog ==
    /\ InitState(MaxLogOps)
    /\ options = OptionsOf(0, "none", FALSE)

NextLog ==
    \/ \E entries \in LoadInputs : Quiescent /\ Load(entries)
    \/ \E t \in Txs : Quiescent /\ Begin(t)
    \/ \E t \in Txs, k \in Keys : Quiescent /\ Set(t, k, WriterValue(t))
    \/ \E t \in Txs, k \in Keys, r \in MergeRevisions :
          Quiescent /\ Merge(t, k, r)
    \/ \E t \in Txs, k \in Keys : Quiescent /\ Delete(t, k)
    \/ \E t \in Txs : Quiescent /\ Commit(t)
    \/ \E c \in Calls : LoadStep(c)
    \/ \E c \in Calls : AsyncIteratorStep(c)
    \/ \E c \in Calls : BeginStep(c)
    \/ \E c \in Calls : BeginNext(c)
    \/ \E c \in Calls : CommitGet(c)
    \/ \E c \in Calls : CommitStage(c)
    \/ \E c \in Calls : CommitCollect(c)
    \/ \E c \in Calls : CommitAppend(c)
    \/ \E c \in Calls : CommitNext(c)
    \/ \E c \in Calls : CommitTransaction(c)
    \/ \E c \in Calls : CommitInstallStep(c)
    \/ \E c \in Calls : CommitRevisionStep(c)
    \/ \E c \in Calls : Settles(c)
    \/ Tick

SpecLog == InitLog /\ [][NextLog]_vars

\* the application loads entries, then reads some keys and writes others
\* through one transaction and commits it, awaiting each call; the cache
\* has the default LRU capacity or an LRU tier of capacity 1, and the host
\* reclaims what the tier has evicted.  before keeps, for the properties,
\* the cache as it was when the last load or commit was called.
InitRead ==
    /\ cache = EmptyCache
    /\ tx = [t \in Txs |-> NoTx]
    /\ calls = [c \in Calls |-> NoCall]
    /\ now = 1
    /\ net = NoTracking
    /\ app = [calls |-> 0, limit |-> MaxReadOps, before |-> EmptyCache]
    /\ \E lru \in 0..MaxLruOption : options = OptionsOf(lru, "none", FALSE)

\* await cache.load(entries)
LoadAwaited(entries) ==
    /\ Quiescent
    /\ app.calls < app.limit
    /\ app' = [app EXCEPT !.calls = @ + 1, !.before = cache]
    /\ calls' = [calls EXCEPT ![FreeCall] = loadCall(entries, FALSE)]
    /\ UNCHANGED <<cache, tx, net, options, now>>

\* await tx.commit()
CommitAwaited(t) ==
    /\ Quiescent
    /\ app.calls < app.limit
    /\ tx[t].live
    /\ app' = [app EXCEPT !.calls = @ + 1, !.before = cache]
    /\ calls' = [calls EXCEPT ![FreeCall] = commitCall(t)]
    /\ tx' = [tx EXCEPT ![t].pc = "pending", ![t].staged = <<>>,
                        ![t].commits = @ + 1,
                        ![t].after = {u \in Txs : tx[u].pc = "resolved"},
                        ![t].asked = MapKeys(tx[t].localUpdatedEntries)]
    /\ UNCHANGED <<cache, net, options, now>>

NextRead ==
    \/ \E entries \in LoadInputs : LoadAwaited(entries)
    \/ Quiescent /\ Begin("t1")
    \/ \E k \in Keys : Quiescent /\ Get("t1", k)
    \/ \E k \in Keys : Quiescent /\ Set("t1", k, Obj1("a", 1))
    \/ CommitAwaited("t1")
    \/ \E c \in Calls : LoadStep(c)
    \/ \E c \in Calls : AsyncIteratorStep(c)
    \/ \E c \in Calls : BeginStep(c)
    \/ \E c \in Calls : BeginNext(c)
    \/ \E c \in Calls : CommitGet(c)
    \/ \E c \in Calls : CommitStage(c)
    \/ \E c \in Calls : CommitCollect(c)
    \/ \E c \in Calls : CommitAppend(c)
    \/ \E c \in Calls : CommitNext(c)
    \/ \E c \in Calls : CommitTransaction(c)
    \/ \E c \in Calls : CommitInstallStep(c)
    \/ \E c \in Calls : CommitRevisionStep(c)
    \/ \E c \in Calls : Settles(c)
    \/ \E k \in Keys : Reclaim(k)
    \/ Tick

SpecRead == InitRead /\ [][NextRead]_vars

\* the entities passed to deepMerge: numbers, null, a string, arrays and
\* objects of up to two levels over the fields a and b
Numbers == {Num(n) : n \in 0..MaxNumber}

Objects(values) ==
    {Obj(f) : f \in UNION {[D -> values] : D \in SUBSET Fields}}

MergeLeaves == Numbers \cup {Null, Str("1"), Arr(<<>>), Arr(<<Num(1)>>)}

MergeEntities == MergeLeaves \cup Objects(MergeLeaves \cup Objects(Numbers))

\* deepMerge on its own: the application holds two entities, calls
\* deepMerge on them once and keeps the result
InitMerge ==
    /\ cache = EmptyCache
    /\ tx = [t \in Txs |-> NoTx]
    /\ calls = [c \in Calls |-> NoCall]
    /\ now = 1
    /\ net = NoTracking
    /\ \E targetData \in MergeEntities, sourceData \in MergeEntities :
          app = [calls |-> 0, limit |-> 1, target |-> targetData,
                 source |-> sourceData, merged |-> Undefined]
    /\ options = OptionsOf(0, "none", FALSE)

\* merged = deepMerge(target, source)
DeepMerge ==
    /\ app.calls < app.limit
    /\ app' = [app EXCEPT !.calls = @ + 1,
                          !.merged = deepMerge(app.target, app.source)]
    /\ UNCHANGED <<cache, tx, calls, net, options, now>>

NextMerge == DeepMerge

SpecMerge == InitMerge /\ [][NextMerge]_vars

\* two transactions write the key k1 and commit; the application awaits
\* beginTransaction but does not await a commit before its next call: the
\* promise jobs of the commits interleave; the LRU tier of default capacity
\* holds every entry
InitOverlap ==
    /\ InitState(MaxOverlapOps)
    /\ options = OptionsOf(0, "none", FALSE)

NextOverlap ==
    \/ \E t \in Txs : Quiescent /\ Begin(t)
    \/ \E t \in Txs : Set(t, "k1", WriterValue(t))
    \/ \E t \in Txs : Commit(t)
    \/ \E c \in Calls : CommitGet(c)
    \/ \E c \in Calls : CommitStage(c)
    \/ \E c \in Calls : CommitCollect(c)
    \/ \E c \in Calls : CommitAppend(c)
    \/ \E c \in Calls : CommitNext(c)
    \/ \E c \in Calls : CommitTransaction(c)
    \/ \E c \in Calls : CommitInstallStep(c)
    \/ \E c \in Calls : CommitRevisionStep(c)
    \/ \E c \in Calls : Settles(c)
    \/ \E c \in Calls : AsyncIteratorStep(c)
    \/ \E c \in Calls : BeginStep(c)
    \/ \E c \in Calls : BeginNext(c)
    \/ Tick

SpecOverlap == InitOverlap /\ [][NextOverlap]_vars

\* the application starts requests through two fetch functions built with
\* the middleware, the requests fulfil or reject in any order, and the
\* application calls requestsCompleted, whose timer may fire whenever no
\* promise job is queued
InitNetwork ==
    /\ InitState(0)
    /\ options = OptionsOf(0, "none", FALSE)

\* fetch(url, {method}): the middleware runs up to its await
Fetch(originatingFetch, method) ==
    /\ \E r \in Requests :
          /\ net.requests[r].status = "idle"
          /\ \A q \in 1..(r - 1) : net.requests[q].status # "idle"
          /\ LET started == [net EXCEPT !.requests[r] =
                                [status |-> "pending", fetch |-> originatingFetch,
                                 method |-> method]]
             IN net' = trackStart(started, originatingFetch,
                                  debugInfoOf(started, r))
    /\ UNCHANGED <<cache, tx, calls, options, now, app>>

\* next(request) has settled (outcome is "fulfilled" or "rejected") and the
\* middleware resumes from its await: the finally block runs and the promise
\* of the middleware settles.  What the resolved deferred makes happen runs
\* in later promise jobs.
Settle(r, outcome) ==
    /\ net.requests[r].status = "pending"
    /\ net' = [trackSettle(net, net.requests[r].fetch, debugInfoOf(net, r))
                 EXCEPT !.requests[r].status = outcome]
    /\ UNCHANGED <<cache, tx, calls, options, now, app>>

\* requestsCompleted(originatingFetch), the call itself.  Without a deferred
\* the async function returns undefined and its promise is fulfilled when
\* the call returns.  With one it creates the error, starts the timer and
\* returns Promise.race([deferred.promise, timeout]): the race registers a
\* reaction on each of the two promises, the one on a deferred resolved
\* already is queued at once, and the job that chains the returned promise
\* to the race is queued behind it.
RequestsCompleted(originatingFetch) ==
    /\ \E w \in Waiters :
          /\ net.waiters[w].status = "idle"
          /\ \A v \in 1..(w - 1) : net.waiters[v].status # "idle"
          /\ LET deferred == net.RequestsCompletedPromisesByToken[originatingFetch]
                 history == [NoWaiter EXCEPT
                               !.fetch = originatingFetch,
                               !.atCall = PendingRequests(net, originatingFetch)]
             IN net' = IF ~deferred.has
                       THEN [net EXCEPT !.waiters[w] =
                               [history EXCEPT !.status = "resolved"]]
                       ELSE [net EXCEPT
                               !.waiters[w] =
                                   [history EXCEPT
                                      !.status = "waiting",
                                      !.deferred = deferred.id,
                                      !.race = "pending",
                                      !.timer = "armed",
                                      !.message = timeoutMessagePrefix],
                               !.jobs =
                                   @ \o (IF deferred.resolved
                                         THEN <<raceReaction(w, "fulfilled")>>
                                         ELSE <<>>)
                                     \o <<[kind |-> "chain", w |-> w,
                                           outcome |-> "none"]>>]
    /\ UNCHANGED <<cache, tx, calls, options, now, app>>

\* the oldest promise job of the queue runs
PromiseJob ==
    /\ net.jobs # <<>>
    /\ LET job == Head(net.jobs)
           rest == [net EXCEPT !.jobs = Tail(@)]
       IN net' = IF job.kind = "race" THEN raceSettles(rest, job.w, job.outcome)
                 ELSE IF job.kind = "chain" THEN returnedChains(rest, job.w)
                 ELSE returnedSettles(rest, job.w, job.outcome)
    /\ UNCHANGED <<cache, tx, calls, options, now, app>>

\* a timer callback that lists the requests that were pending when
\* requestsCompleted was called
TimerFiresListingCall(w) ==
    /\ net.waiters[w].timer = "armed"
    /\ net.jobs = <<>>
    /\ net' = [net EXCEPT
                 !.waiters[w].timer = "fired",
                 !.waiters[w].message =
                     @ \o "\n" \o
                     pendingRequestLines(
                        SelectSeq([r \in Requests |-> debugInfoOf(net, r)],
                                  LAMBDA info : info.id \in net.waiters[w].atCall),
                        1),
                 !.jobs = Append(@, raceReaction(w, "rejected"))]
    /\ UNCHANGED <<cache, tx, calls, options, now, app>>

\* the timer of a requestsCompleted call fires: a task of its own, which the
\* host starts when no promise job is left.  The callback appends the lines
\* of the requests pending now to the message of the error and rejects the
\* timeout promise, which queues the reaction of the race.  The timer is
\* never cleared, so it also fires after the call has resolved.
TimerFires(w) ==
    /\ net.waiters[w].timer = "armed"
    /\ net.jobs = <<>>
    /\ net' = [net EXCEPT
                 !.waiters[w].timer = "fired",
                 !.waiters[w].message =
                     @ \o "\n" \o
                     pendingRequestLines(
                        getPendingRequestState(net, net.waiters[w].fetch), 1),
                 !.jobs = Append(@, raceReaction(w, "rejected"))]
    /\ UNCHANGED <<cache, tx, calls, options, now, app>>

\* the application alternates GET and POST requests
NextMethod ==
    IF Cardinality({r \in Requests : net.requests[r].status # "idle"}) % 2 = 0
    THEN "GET" ELSE "POST"

\* the application starts requests and calls requestsCompleted at any
\* moment, also between two promise jobs; the requests settle at any moment
NextNetwork ==
    \/ \E f \in Fetches : Fetch(f, NextMethod)
    \/ \E r \in Requests, outcome \in {"fulfilled", "rejected"} : Settle(r, outcome)
    \/ \E f \in Fetches : RequestsCompleted(f)
    \/ PromiseJob
    \/ \E w \in Waiters : TimerFires(w)

\* the host runs every promise job that is queued
SpecNetwork == InitNetwork /\ [][NextNetwork]_vars /\ WF_vars(PromiseJob)

\* an LRU tier on its own: new LruCacheImpl(N), then set after set.  The
\* tier is the lruCache of the state, N is options.lru, and the application
\* remembers the keys it has set.
InitLruSet ==
    /\ cache = EmptyCache
    /\ tx = [t \in Txs |-> NoTx]
    /\ calls = [c \in Calls |-> NoCall]
    /\ now = 1
    /\ net = NoTracking
    /\ app = [calls |-> 0, limit |-> MaxLruSetOps, inserted |-> <<>>]
    /\ \E n \in 1..MaxLruCapacity : options = OptionsOf(n, "none", FALSE)

\* lruCache.set(cacheKey, value)
LruInsert(cacheKey, value) ==
    /\ app.calls < app.limit
    /\ app' = [app EXCEPT !.calls = @ + 1, !.inserted = Append(@, cacheKey)]
    /\ cache' = [cache EXCEPT
                   !.lruCache = LruSet(@, options.lru, cacheKey, value)]
    /\ UNCHANGED <<tx, calls, net, options, now>>

NextLruSet == \E k \in AllKeys, v \in SetValues : LruInsert(k, v)

SpecLruSet == InitLruSet /\ [][NextLruSet]_vars

-----------------------------------------------------------------------------
(* Properties *)

\* the keys of the entries a commit has staged
StagedKeys(t) == {tx[t].staged[i].key : i \in 1..Len(tx[t].staged)}

\* the revision numbers of a revision list
RevisionNumbers(revisions) == [i \in 1..Len(revisions) |-> revisions[i].revision]

StrictlyIncreasing(numbers) ==
    \A i \in 1..Len(numbers) : \A j \in 1..Len(numbers) :
        i < j => numbers[i] < numbers[j]

\* C1: snapshot isolation.  For a live transaction T and every key k that T
\* has not set, merged or deleted, T.get(k) returns the value k had in the
\* primary store when T was begun, whatever has happened to the cache since.
\* The instant T was begun is the call of beginTransaction or the resolution
\* of its promise, the same one for all keys.
SnapshotIsolation ==
    \A t \in Txs :
        tx[t].live =>
            \/ \A k \in Keys :
                   k \notin tx[t].touched => TxGet(tx[t], k) = tx[t].atBegin[k]
            \/ \A k \in Keys :
                   k \notin tx[t].touched => TxGet(tx[t], k) = tx[t].atResolve[k]

\* C2: local-write visibility.  After T.set(k, v), T.get(k) returns v until T
\* sets, merges or deletes k again.
LocalWriteVisibility ==
    \A t \in Txs : \A k \in Keys :
        (tx[t].live /\ tx[t].lastSet[k] # Absent)
            => TxGet(tx[t], k) = tx[t].lastSet[k]

\* C2: T reads its own write while the primary store holds another value
LocalWriteVisibilityWitness ==
    \E t \in Txs : \E k \in Keys :
        /\ tx[t].live /\ tx[t].lastSet[k] # Absent
        /\ Truthy(CacheGet(cache, k))
        /\ CacheGet(cache, k) # tx[t].lastSet[k]
        /\ TxGet(tx[t], k) = tx[t].lastSet[k]

\* C3: revision monotonicity.  For every key the revision numbers that
\* cache.entryRevisions(k) yields are strictly increasing.
RevisionMonotonicity ==
    \A k \in Keys :
        StrictlyIncreasing(RevisionNumbers(CacheEntryRevisions(cache, k)))

\* C5: LRU bound.  On a cache configured with expiration.lru = N the LRU tier
\* holds at most N entries, for every N the configuration takes, small N
\* included.
LruBound == Len(cache.lruCache) <= options.lru

\* the entry a commit has staged for a key
StagedEntry(t, k) ==
    tx[t].staged[CHOOSE i \in 1..Len(tx[t].staged) : tx[t].staged[i].key = k]

\* the rule of the default strategy on entities whose fields hold numbers:
\* the fields of both, a field of the incoming entity taking its value
Override(current, incoming) ==
    Obj([f \in (DOMAIN current.f) \cup (DOMAIN incoming.f) |->
           IF f \in DOMAIN incoming.f THEN incoming.f[f] ELSE current.f[f]])

\* first and second were begun on the same primary state, both wrote k, each
\* has committed once, and the commit of second was called after the commit
\* of first had resolved
CommittedInTurn(first, second, k) ==
    /\ first # second
    /\ tx[first].live /\ tx[second].live
    /\ tx[first].atBegin = tx[second].atBegin
    /\ tx[first].commits = 1 /\ tx[second].commits = 1
    /\ tx[first].pc = "resolved"
    /\ first \in tx[second].after
    /\ k \in tx[first].asked /\ k \in tx[second].asked
    /\ tx[second].pc \in {"rejected", "resolved"}

\* the value the commit of second has installed for k is the merge of the
\* value the first installed with the local value of the second: the fields
\* of both, a field written by the second taking its value
InstalledMergeOfBoth(first, second, k) ==
    /\ tx[second].pc = "resolved"
    /\ k \in StagedKeys(first) /\ k \in StagedKeys(second)
    /\ StagedEntry(second, k).value =
           Override(StagedEntry(first, k).value, StagedEntry(second, k).local)
    /\ Truthy(CacheGet(cache, k))
           => CacheGet(cache, k) = StagedEntry(second, k).value

\* C6 as stated: sequential commits of conflicting transactions.  The second
\* commit does not abort, and the primary value of k it leaves is the merge
\* of the value the first installed with the local value of the second.
SequentialCommitsMerge ==
    \A first \in Txs : \A second \in Txs : \A k \in Keys :
        CommittedInTurn(first, second, k)
            => InstalledMergeOfBoth(first, second, k)

\* C6: sequential commits of conflicting transactions, while the primary
\* store resolves k.  The second commit does not abort.  If the weak reference
\* of k resolves when the second commit reads it, the primary value the
\* second leaves is the merge of the value the first installed with the local
\* value of the second; if the value the first installed has been evicted
\* from the LRU tier and reclaimed by then, it is the local value of the
\* second alone.
SequentialCommitsMergeWhileResolved ==
    \A first \in Txs : \A second \in Txs : \A k \in Keys :
        CommittedInTurn(first, second, k)
            => IF Truthy(StagedEntry(second, k).latest)
               THEN InstalledMergeOfBoth(first, second, k)
               ELSE /\ tx[second].pc = "resolved"
                    /\ k \in StagedKeys(first)
                    /\ StagedEntry(second, k).value = StagedEntry(second, k).local
                    /\ Truthy(CacheGet(cache, k))
                          => CacheGet(cache, k) = StagedEntry(second, k).local

\* C6: the first set {a: 2, b: 2} and the second {a: 1}; b survives from the
\* first and a is the second's
SequentialCommitsMergeWitness ==
    \E first \in Txs : \E second \in Txs : \E k \in Keys :
        /\ CommittedInTurn(first, second, k)
        /\ tx[second].pc = "resolved"
        /\ StagedEntry(first, k).value = Obj2(2, 2)
        /\ StagedEntry(second, k).latest = Obj2(2, 2)
        /\ StagedEntry(second, k).local = Obj1("a", 1)
        /\ CacheGet(cache, k) = Obj2(1, 2)

\* what the claim C7 says commit installs for a staged entry
InstalledValue(entry) ==
    IF Truthy(entry.latest) THEN Override(entry.latest, entry.local)
    ELSE entry.local

\* C7: value installed by commit.  For a key of the local overlay with local
\* value v, commit reads the value the primary store holds at that moment; the
\* value it installs is that value with the fields of v laid over it, and v
\* itself when the primary store has no value for the key.
CommitInstallsMerge ==
    [][\A c \in Calls :
          (CommitInstallStep(c) /\ calls[c].it < Len(calls[c].staged))
              => LET entry == calls[c].staged[calls[c].it + 1]
                 IN CacheGet(cache', entry.key) = InstalledValue(entry)]_vars

\* C7: a commit has installed {a: 1} over the primary {a: 2, b: 2}, which was
\* not there yet when the transaction was begun
CommitInstallsMergeWitness ==
    \E t \in Txs : \E k \in Keys :
        /\ tx[t].pc = "resolved" /\ k \in StagedKeys(t)
        /\ StagedEntry(t, k).latest = Obj2(2, 2)
        /\ StagedEntry(t, k).latest # tx[t].atBegin[k]
        /\ StagedEntry(t, k).local = Obj1("a", 1)
        /\ CacheGet(cache, k) = Obj2(1, 2)

\* second was begun after the commit of first had resolved, and each of the
\* two has set k and nothing else, and committed once
InSuccession(first, second, k) ==
    /\ first # second
    /\ tx[first].live /\ tx[second].live
    /\ tx[first].begunAfter = {} /\ tx[second].begunAfter = {first}
    /\ tx[first].touched = {k} /\ tx[second].touched = {k}
    /\ tx[first].commits = 1 /\ tx[second].commits = 1
    /\ tx[first].pc = "resolved" /\ tx[second].pc = "resolved"

\* C8: revision numbering across commits.  After n successive transactions
\* that each begin, set k and commit on an empty cache, the log of k holds n
\* records numbered 1..n, the i-th holding the composition of the first i
\* values (here n = 2).
SuccessiveRevisionNumbers ==
    \A first \in Txs : \A second \in Txs : \A k \in Keys :
        InSuccession(first, second, k)
            => /\ RevisionNumbers(CacheEntryRevisions(cache, k)) = <<1, 2>>
               /\ CacheEntryRevisions(cache, k)[1].entity =
                      StagedEntry(first, k).local
               /\ CacheEntryRevisions(cache, k)[2].entity =
                      deepMerge(StagedEntry(first, k).local,
                                StagedEntry(second, k).local)

\* C9: custom revision-merge strategy.  When hooks.revisionMergeStrategy is
\* configured, a commit calls it once for each key it stages, and the
\* revisions it installs for a key are the ones the strategy staged.
CustomRevisionStrategyCalled ==
    \A t \in Txs :
        (options.revisionMergeStrategy /\ tx[t].pc = "resolved"
         /\ tx[t].commits = 1)
            => /\ tx[t].hookCalls = Len(tx[t].staged)
               /\ \A k \in StagedKeys(t) :
                     CacheEntryRevisions(cache, k) =
                         MapGet(tx[t].mergedRevisions, k)

\* C10: a merge producing nothing is an error.  When the strategy returns
\* undefined for T.merge(k, rev), the view, the local overlay and the local
\* revisions of T for k stay as they were.
MergeProducedUndefinedKeepsState ==
    [][\A t \in Txs : \A k \in Keys : \A r \in MergeRevisions :
          (Merge(t, k, r)
           /\ mergeStrategy(options, r, MapGet(tx[t].transactionalCache, k))
                  = Undefined)
              => /\ tx'[t].transactionalCache = tx[t].transactionalCache
                 /\ tx'[t].localUpdatedEntries = tx[t].localUpdatedEntries
                 /\ tx'[t].localRevisions = tx[t].localRevisions]_vars

\* the commit call c in flight has called the entity-merge hook: the cache
\* held a value for an entry it has staged
HookCalled(c) ==
    \E i \in 1..Len(calls[c].staged) : Truthy(calls[c].staged[i].latest)

\* C11: commit with a hook that never completes.  When the entity-merge hook
\* returns a promise that never settles, a commit that has called it installs
\* nothing and does not resolve: the primary store, the LRU tier and the
\* revision log stay as they are.
PendingHookCommitInstallsNothing ==
    [][\A c \in Calls :
          (/\ options.entitymergeStrategy = "pending"
           /\ calls[c].op = "commit"
           /\ CommitInstallStep(c) \/ CommitRevisionStep(c) \/ Settles(c)
           /\ HookCalled(c))
              => /\ cache' = cache
                 /\ tx'[calls[c].t].pc # "resolved"]_vars

\* commitTransaction of the commit call c has installed some of its entries
\* or revisions and has others left to install (at "revs" the revisions its
\* iterator has read last are still to be appended)
MidInstall(c) ==
    /\ calls[c].op = "commit"
    /\ \/ /\ calls[c].pc = "install"
          /\ calls[c].it >= 1
          /\ \/ calls[c].it < Len(calls[c].staged)
             \/ Len(tx[calls[c].t].mergedRevisions) >= 1
       \/ /\ calls[c].pc = "revs"
          /\ Len(calls[c].staged) >= 1 \/ calls[c].it >= 2

\* a promise job of the call c that reads or writes the cache
CacheJob(c) ==
    \/ LoadStep(c)
    \/ AsyncIteratorStep(c)
    \/ ClearStep(c)
    \/ BeginStep(c)
    \/ CommitGet(c)
    \/ CommitInstallStep(c)
    \/ CommitRevisionStep(c)

\* C12: atomic install.  Between the first entry a commit installs and the
\* last revision list it appends, no load, clear or beginTransaction runs and
\* no other commit reads the cache or installs.
AtomicInstall ==
    [][\A c \in Calls :
          MidInstall(c)
              => /\ ~(\E entries \in LoadInputs : Load(entries))
                 /\ ~Clear
                 /\ \A u \in Txs : ~Begin(u)
                 /\ \A d \in Calls \ {c} : ~CacheJob(d)]_vars

\* the time at which the transaction last touched the entry it staged for k
StagedAt(t, k) == lastAccessedOf(StagedEntry(t, k).state)

\* C13: LRU contents after commits, for one transaction.  With LRU capacity
\* 2, after k1, k2 and k3 have been set in that order, each at a later time
\* than the one before, and committed together, the LRU tier holds exactly k2
\* and k3.
LruHoldsMostRecent ==
    \A t \in Txs :
        (/\ options.lru = 2
         /\ tx[t].pc = "resolved" /\ tx[t].commits = 1
         /\ StagedKeys(t) = AllKeys
         /\ StagedAt(t, "k1") < StagedAt(t, "k2")
         /\ StagedAt(t, "k2") < StagedAt(t, "k3"))
            => MapKeys(cache.lruCache) = {"k2", "k3"}

\* the keys of a Map, in insertion order
KeysInOrder(m) == [i \in 1..Len(m) |-> m[i].key]

Distinct(keys) ==
    \A i \in 1..Len(keys) : \A j \in 1..Len(keys) : i # j => keys[i] # keys[j]

\* C14: LRU set matches its reference definition, for every capacity N >= 1.
\* set(key, value) on a present key removes it and inserts it at the tail,
\* evicting no other key; on an absent key with size = N it evicts exactly
\* the head of insertion order; otherwise it only appends.  Hence the tier
\* that was given the distinct keys k1..kN+1 holds all of them but k1.
LruSetMatchesReference ==
    [][\A k \in AllKeys : \A v \in SetValues :
          LruInsert(k, v)
              => LET old == cache.lruCache
                     new == cache'.lruCache
                     n == options.lru
                     entry == [key |-> k, value |-> v]
                     others == SelectSeq(old, LAMBDA e : e.key # k)
                 IN /\ IF \E i \in 1..Len(old) : old[i].key = k
                       THEN new = others \o <<entry>> /\ Len(new) = Len(old)
                       ELSE IF Len(old) = n
                            THEN new = Tail(old) \o <<entry>>
                            ELSE new = old \o <<entry>>
                    /\ (Distinct(app'.inserted) /\ Len(app'.inserted) = n + 1)
                          => KeysInOrder(new) = Tail(app'.inserted)]_vars

\* C14: a tier of capacity 2 was given k1, k2 and k3 and holds k2 and k3
LruSetMatchesReferenceWitness ==
    /\ options.lru = 2
    /\ "inserted" \in DOMAIN app
    /\ app.inserted = <<"k1", "k2", "k3">>
    /\ KeysInOrder(cache.lruCache) = <<"k2", "k3">>

\* the promise of a clear() call resolves: its loop has deleted the last key
\* its iterator yielded, or the cache held no key when it was called
ClearResolves ==
    \E c \in Calls :
        calls[c].op = "clear" /\ ~calls[c].threw /\ Settles(c)

\* C15: clear empties the cache.  After a clear() that completes (its walk
\* of the entries does not throw), cache.get(k) is undefined and
\* cache.entryRevisions(k) yields nothing for every key k, and the LRU tier
\* is empty.
ClearEmptiesCache ==
    [][ClearResolves
          => /\ \A k \in AllKeys :
                   /\ CacheGet(cache', k) = Undefined
                   /\ CacheEntryRevisions(cache', k) = <<>>
             /\ cache'.lruCache = <<>>]_vars

\* the keys whose weak reference has been reclaimed
ReclaimedKeys(c) ==
    {c.weakCache[i].key : i \in {j \in 1..Len(c.weakCache) :
                                     c.weakCache[j].value.cleared}}

\* the keys whose weak reference resolves
ResolvingKeys(c) == {k \in AllKeys : Truthy(CacheGet(c, k))}

\* the loop of the application over cache.entries() ends: the iterator is
\* exhausted or has thrown
EntriesEnds(c) ==
    /\ calls[c].op = "entries"
    /\ Settles(c)

\* C16: iteration tolerates reclaimed entries.  When the weak reference of
\* some key has been reclaimed, cache.entries() completes without error and
\* yields exactly the keys whose weak reference resolves.
IterationSkipsReclaimed ==
    [][((\E c \in Calls : EntriesEnds(c)) /\ ReclaimedKeys(cache) # {})
          => /\ app'.result # IterationError
             /\ {app'.result.items[i].key :
                     i \in 1..Len(app'.result.items)}
                    = ResolvingKeys(cache)]_vars

\* a beginTransaction, save, clear or entries call fails: the iterator of
\* the cache throws at a weak entry that does not resolve
IteratingCallFails(c) ==
    /\ AsyncIteratorStep(c)
    /\ ~Truthy(CacheGet(cache, calls[c].entry.key))

\* C17: an invariant violation does not poison the cache.  After a
\* beginTransaction, save, clear or entries call has failed at a weak entry
\* that does not resolve, the cache is in a state in which these calls
\* succeed again.
FailureDoesNotPoison ==
    [][(\E c \in Calls : IteratingCallFails(c))
          => entriesComplete(cache')]_vars

\* the (key, value) pairs reachable through get
PairsByGet(c) ==
    {<<k, CacheGet(c, k)>> : k \in {key \in AllKeys : Truthy(CacheGet(c, key))}}

\* the (key, value) pairs reachable through entries
PairsByEntries(c) ==
    {<<CacheEntries(c).items[i].key, CacheEntries(c).items[i].value>> :
        i \in 1..Len(CacheEntries(c).items)}

\* the save-clear-load sequence of the application ends: its load resolves
\* or one of its calls rejects
RestoreEnds == app.last # "restore" /\ app'.last = "restore"

\* the save-clear-load sequence leaves the cache with the (key, value) pairs
\* it had before the save
SamePairsAsBefore ==
    /\ app'.result # IterationError
    /\ entriesComplete(cache')
    /\ PairsByGet(cache') = PairsByGet(app.before)
    /\ PairsByEntries(cache') = PairsByEntries(app.before)

\* C18 as stated: save/load round trip.  In a state in which no weak entry
\* has been reclaimed, s = save(), then clear(), then load(s) leaves the
\* cache with the same set of (key, value) pairs reachable through get and
\* through entries as before the save.
SaveLoadRoundTrip ==
    [][(RestoreEnds /\ entriesComplete(app.before))
          => SamePairsAsBefore]_vars

\* C18, amended: save/load round trip while the host reclaims nothing.  In a
\* state in which no weak entry has been reclaimed, s = save(), then clear(),
\* then load(s), with no weak entry reclaimed from the call of save until
\* load(s) has resolved, leaves the cache with the same set of (key, value)
\* pairs reachable through get and through entries as before the save.
SaveLoadRoundTripUnlessReclaimed ==
    [][(RestoreEnds /\ entriesComplete(app.before) /\ ~app.reclaimed)
          => SamePairsAsBefore]_vars

\* a cache of two keys, one of them written by a commit over a loaded value
\* and one held by its weak reference alone, has been saved, cleared and
\* loaded again while the host reclaimed nothing
SaveLoadRoundTripWitness ==
    /\ app.last = "restore"
    /\ ~app.reclaimed
    /\ Len(cache.lruCache) = 1
    /\ app.result # IterationError
    /\ Len(app.result.items) = 2
    /\ PairsByGet(cache) =
          {<<app.result.items[i].key, app.result.items[i].value>> : i \in 1..2}
    /\ \E k \in Keys : CacheGet(cache, k) = Obj2(2, 2)
    /\ \E k \in Keys : CacheGet(cache, k) \notin LoadValues

\* a get, set, merge or delete call on transaction t
TxCall(t) ==
    \/ \E k \in Keys : Get(t, k)
    \/ \E k \in Keys, v \in SetValues : Set(t, k, v)
    \/ \E k \in Keys, r \in MergeRevisions : Merge(t, k, r)
    \/ \E k \in Keys : Delete(t, k)

\* C19: an uncommitted live transaction has no external effect.  A get, set,
\* merge or delete on a live transaction that has never been committed
\* leaves the primary store values, the LRU tier, the primary entry states
\* and the primary revision logs exactly as they were.
UncommittedHasNoEffect ==
    [][\A t \in Txs :
          (tx[t].commits = 0 /\ TxCall(t))
             => /\ cache'.weakCache = cache.weakCache
                /\ cache'.lruCache = cache.lruCache
                /\ cache'.cacheEntryState = cache.cacheEntryState
                /\ cache'.entryRevisions = cache.entryRevisions]_vars

\* a transaction that was never committed has merged into one key and
\* deleted another, and the primary cache still holds what was loaded
UncommittedHasNoEffectWitness ==
    \E t \in Txs :
       /\ tx[t].live
       /\ tx[t].commits = 0
       /\ Len(tx[t].localRevisions) > 0
       /\ \E k \in tx[t].touched :
             /\ TxGet(tx[t], k) = Undefined
             /\ CacheGet(cache, k) \in LoadValues
       /\ \E k \in tx[t].touched :
             /\ Truthy(TxGet(tx[t], k))
             /\ CacheGet(cache, k) \in LoadValues
             /\ TxGet(tx[t], k) # CacheGet(cache, k)

\* a promise job of the commit call c
CommitStep(c) ==
    \/ CommitGet(c)
    \/ CommitStage(c)
    \/ CommitCollect(c)
    \/ CommitAppend(c)
    \/ CommitNext(c)
    \/ CommitTransaction(c)
    \/ CommitInstallStep(c)
    \/ CommitRevisionStep(c)

\* a promise job of a commit of transaction t
CommitJob(t) ==
    \E c \in Calls :
       calls[c].op = "commit" /\ calls[c].t = t /\ CommitStep(c)

\* the last call of transaction t on cacheKey before its commit was delete:
\* the transaction has written or deleted the key and did not hold it in
\* its local entries when commit was called
DeletedBeforeCommit(t, cacheKey) ==
    /\ cacheKey \in tx[t].touched
    /\ cacheKey \notin tx[t].asked

\* C20: transactional delete is local.  When the last operation of a
\* transaction on key k before commit is delete(k), the commit leaves the
\* primary value of k, its LRU membership and its primary revision log
\* unchanged.
DeleteIsLocal ==
    [][\A t \in Txs, k \in Keys :
          (DeletedBeforeCommit(t, k) /\ CommitJob(t))
             => /\ CacheGet(cache', k) = CacheGet(cache, k)
                /\ MapHas(cache'.lruCache, k) = MapHas(cache.lruCache, k)
                /\ CacheEntryRevisions(cache', k)
                      = CacheEntryRevisions(cache, k)]_vars

\* the keys of the entries passed to load
EntryKeys(entries) == {entries[i].key : i \in 1..Len(entries)}

\* the step takes cacheKey out of the LRU tier to make room for another key
EvictedByCapacity(cacheKey) ==
    /\ MapHas(cache.lruCache, cacheKey)
    /\ ~MapHas(cache'.lruCache, cacheKey)
    /\ Len(cache.lruCache) = lruPolicyOf(options)
    /\ \E other \in AllKeys :
          MapHas(cache'.lruCache, other) /\ ~MapHas(cache.lruCache, other)

\* the host has reclaimed the value of cacheKey, which the LRU tier does not
\* hold
ReclaimedUnprotected(c, cacheKey) ==
    /\ MapHas(c.weakCache, cacheKey)
    /\ MapGet(c.weakCache, cacheKey) = ClearedRef
    /\ ~MapHas(c.lruCache, cacheKey)

\* a load call settles
LoadEnds(c) ==
    /\ calls[c].op = "load"
    /\ Settles(c)

\* a turn of a load leaves a key outside entries as it is: the weak reference
\* points to the same object, the revision log is the same, the key gains no
\* LRU slot, a slot it keeps holds the same object, and it loses its slot
\* only through capacity eviction; a key that is readable stays readable
LoadStepFrame ==
    \A c \in Calls :
       LoadStep(c)
          => \A k \in AllKeys :
                /\ k \notin EntryKeys(calls[c].entries)
                     => /\ MapHas(cache'.weakCache, k) = MapHas(cache.weakCache, k)
                        /\ MapGet(cache'.weakCache, k) = MapGet(cache.weakCache, k)
                        /\ CacheEntryRevisions(cache', k)
                              = CacheEntryRevisions(cache, k)
                        /\ MapHas(cache'.lruCache, k)
                              => /\ MapHas(cache.lruCache, k)
                                 /\ MapGet(cache'.lruCache, k)
                                       = MapGet(cache.lruCache, k)
                        /\ (MapHas(cache.lruCache, k) /\ ~MapHas(cache'.lruCache, k))
                              => EvictedByCapacity(k)
                /\ Truthy(CacheGet(cache, k))
                     => Truthy(CacheGet(cache', k))

\* C21 as stated: load does not clear.  When load(entries) has resolved, the
\* primary value and the revision log of every key that does not occur in
\* entries are what they were when load was called, and every key that was
\* readable then is readable; during the load such a key loses its LRU slot
\* only through capacity eviction.
LoadDoesNotClear ==
    [][/\ LoadStepFrame
       /\ \A c \in Calls :
             LoadEnds(c)
                => \A k \in AllKeys :
                      /\ k \notin EntryKeys(calls[c].entries)
                           => /\ CacheGet(cache, k) = CacheGet(app.before, k)
                              /\ CacheEntryRevisions(cache, k)
                                    = CacheEntryRevisions(app.before, k)
                      /\ Truthy(CacheGet(app.before, k))
                           => Truthy(CacheGet(cache, k))]_vars

\* C21, amended: load does not clear, but the host may reclaim.  Every turn
\* of load(entries) leaves the weak reference and the revision log of every
\* key that does not occur in entries unchanged, such a key gains no LRU
\* slot and loses its slot only through capacity eviction, and a readable
\* key stays readable.  When the load has resolved, the revision log of such
\* a key is what it was at the call and its weak reference is the same,
\* unless the host has reclaimed its value, which the LRU tier does not
\* hold; every key that was readable at the call is readable, unless the
\* host has reclaimed its value in the same way.
LoadDoesNotClearUnlessReclaimed ==
    [][/\ LoadStepFrame
       /\ \A c \in Calls :
             LoadEnds(c)
                => \A k \in AllKeys :
                      /\ k \notin EntryKeys(calls[c].entries)
                           => /\ CacheEntryRevisions(cache, k)
                                    = CacheEntryRevisions(app.before, k)
                              /\ MapHas(cache.weakCache, k)
                                    = MapHas(app.before.weakCache, k)
                              /\ \/ MapGet(cache.weakCache, k)
                                       = MapGet(app.before.weakCache, k)
                                 \/ ReclaimedUnprotected(cache, k)
                              /\ MapHas(cache.lruCache, k)
                                    => /\ MapHas(app.before.lruCache, k)
                                       /\ MapGet(cache.lruCache, k)
                                             = MapGet(app.before.lruCache, k)
                      /\ Truthy(CacheGet(app.before, k))
                           => \/ Truthy(CacheGet(cache, k))
                              \/ ReclaimedUnprotected(cache, k)]_vars

\* a load of k1 into the tier of capacity 1 is about to resolve: k2, loaded
\* by an earlier call, has lost its LRU slot to k1 and is still readable
\* with its revision log
LoadDoesNotClearWitness ==
    /\ \E c \in Calls :
          /\ calls[c].op = "load"
          /\ calls[c].pc = "done"
          /\ EntryKeys(calls[c].entries) = {"k1"}
    /\ MapHas(app.before.lruCache, "k2")
    /\ ~MapHas(app.before.weakCache, "k1")
    /\ MapHas(cache.lruCache, "k1")
    /\ ~MapHas(cache.lruCache, "k2")
    /\ Truthy(CacheGet(cache, "k2"))
    /\ MapGet(cache.weakCache, "k2") = MapGet(app.before.weakCache, "k2")
    /\ Len(CacheEntryRevisions(cache, "k2")) > 0

\* C22: the default deep merge is idempotent.  deepMerge(x, x) equals x for
\* every structured-cloneable entity x.
DeepMergeIdempotent ==
    (/\ app.calls > 0
     /\ app.target = app.source
     /\ structuredClone(app.target) = app.target)
        => app.merged = app.target

\* an entity with a nested object, an array and a number as field values has
\* been merged with itself
DeepMergeIdempotentWitness ==
    /\ app.calls > 0
    /\ app.target = app.source
    /\ isObject(app.target)
    /\ DOMAIN app.target.f = Fields
    /\ app.target.f["a"] = Obj2(0, 1)
    /\ app.target.f["b"] = Arr(<<Num(1)>>)
    /\ app.merged = app.target

\* the requests getPendingRequestState lists for a fetch
ListedRequests(originatingFetch) ==
    {getPendingRequestState(net, originatingFetch)[i].id :
        i \in 1..Len(getPendingRequestState(net, originatingFetch))}

\* C23: pending-request tracking.  For every fetch, hasPendingRequests is
\* true exactly while a request started through that fetch has not settled,
\* and getPendingRequestState lists exactly those requests, each once with
\* its own method and url; a request that settles by throwing is removed
\* like one that succeeds, and no request appears in the state of another
\* fetch.
PendingRequestTracking ==
    \A f \in Fetches :
       /\ hasPendingRequests(net, f) = (PendingRequests(net, f) # {})
       /\ ListedRequests(f) = PendingRequests(net, f)
       /\ Len(getPendingRequestState(net, f))
             = Cardinality(PendingRequests(net, f))
       /\ \A i \in 1..Len(getPendingRequestState(net, f)) :
             getPendingRequestState(net, f)[i]
                = debugInfoOf(net, getPendingRequestState(net, f)[i].id)

\* of two requests of f1 the older one is still pending after the younger
\* one has thrown, and a request of f2 is pending as well
PendingRequestTrackingWitness ==
    /\ net.requests[1].fetch = "f1" /\ net.requests[1].status = "pending"
    /\ net.requests[2].fetch = "f1" /\ net.requests[2].status = "rejected"
    /\ net.requests[3].fetch = "f2" /\ net.requests[3].status = "pending"
    /\ ListedRequests("f1") = {1}
    /\ ListedRequests("f2") = {3}

\* C24: requestsCompleted waits for quiescence.  A requestsCompleted(fetch)
\* call made while requests of that fetch are pending does not resolve at
\* the call, resolves only when the number of pending requests of that fetch
\* has dropped to zero, so that no request of the fetch is pending when it
\* resolves, and does resolve once the number has dropped to zero before
\* its timer has fired.
RequestsCompletedWaitsForQuiescence ==
    /\ [][\A w \in Waiters :
             LET f == net'.waiters[w].fetch
                 call == net.waiters[w].status = "idle"
                            /\ net'.waiters[w].status # "idle"
             IN /\ (call /\ PendingRequests(net, f) # {})
                      => net'.waiters[w].status = "waiting"
                /\ (/\ net.waiters[w].atCall # {}
                    /\ net.waiters[w].status = "waiting"
                    /\ net'.waiters[w].status = "resolved")
                      => PendingRequests(net', f) = {}]_vars
    /\ \A w \in Waiters :
          (/\ net.waiters[w].atCall # {}
           /\ net.waiters[w].status = "waiting"
           /\ net.waiters[w].timer = "armed"
           /\ PendingRequests(net, net.waiters[w].fetch) = {})
             ~> (net.waiters[w].status = "resolved")

\* C25: overlapping commits still merge.  Also when the promise jobs of two
\* commits interleave, a commit that installs key k has computed the value
\* it installs by merging against the value installed for k at that moment,
\* so the write of the commit that installed k before it is not lost.
OverlappingCommitsMerge ==
    [][\A c \in Calls :
          (CommitInstallStep(c) /\ calls[c].it < Len(calls[c].staged))
             => calls[c].staged[calls[c].it + 1].latest
                   = CacheGet(cache, calls[c].staged[calls[c].it + 1].key)]_vars

\* state.lastAccessed of the local entry of transaction t at index i
LocalLastAccessed(t, i) ==
    lastAccessedOf(MapGet(tx[t].cacheEntryState,
                          tx[t].localUpdatedEntries[i].key))

\* C26: commit processing order.  The commit loop handles the locally
\* changed keys in descending order of state.lastAccessed: the key a turn
\* of the loop handles was touched no earlier than any key still to be
\* handled, whatever the order in which the keys were first set.
CommitLoopMostRecentFirst ==
    [][\A c \in Calls :
          CommitGet(c)
             => \A j \in (calls[c].it + 1)..Len(tx[calls[c].t].localUpdatedEntries) :
                   lastAccessedOf(calls[c].entry.state)
                      >= LocalLastAccessed(calls[c].t, j)]_vars

\* C27: revisions installed by a commit (default retain-all strategy).  For
\* a locally changed key k the commit loop appends to the local revisions of
\* k one record with the committed value and the number (last local
\* revision number of k, else 0) + 1, and the commit appends to the primary
\* log of k exactly the transaction's local revisions of k, in order, each
\* once.
CommitInstallsLocalRevisions ==
    [][\A c \in Calls :
          /\ (CommitStage(c) /\ ~calls'[c].threw)
                => LET t == calls[c].t
                       k == calls[c].entry.key
                       before == TxLocalRevisions(tx[t], k)
                   IN TxLocalRevisions(tx'[t], k) =
                         Append(before,
                                [entity |->
                                    calls'[c].staged[Len(calls'[c].staged)].value,
                                 revision |->
                                    (IF before = <<>> THEN 0
                                     ELSE before[Len(before)].revision) + 1])
          /\ CommitRevisionStep(c)
                => LET t == calls[c].t
                       k == calls[c].revision.key
                   IN k \in tx[t].asked
                        => CacheEntryRevisions(cache', k) =
                              CacheEntryRevisions(cache, k)
                                 \o TxLocalRevisions(tx[t], k)]_vars

\* the promise of the beginTransaction call that constructs transaction t
\* resolves
BeginResolves(t) ==
    /\ ~tx[t].live
    /\ tx'[t].live
    /\ \E c \in Calls : calls[c].op = "begin" /\ Settles(c)

\* C28: transaction revision view.  For every key present in the primary
\* store at begin, the entryRevisions of the transaction yield the records
\* of the primary revision log as of begin, in order, followed by the local
\* revisions of the key; right after begin they equal the entryRevisions of
\* the cache, whatever the length of the log.
BeginSeedsRevisionLog ==
    [][\A t \in Txs :
          BeginResolves(t)
             => \A k \in AllKeys :
                   MapHas(cache.weakCache, k)
                      => /\ TxLocalRevisions(tx'[t], k) = <<>>
                         /\ TxEntryRevisions(tx'[t], k)
                               = CacheEntryRevisions(cache, k)]_vars

\* C29: transactional merge.  merge(k, rev) computes m, the result of the
\* entity merge strategy for rev and the current transactional value of k;
\* m is then the value get(k) returns and the value of k in the local
\* entries, exactly one record {entity: m, revision: rev.revision,
\* revisionContext: rev.revisionContext} is appended to the local revisions
\* of k, and nothing changes for any other key.
TransactionalMerge ==
    [][\A t \in Txs, k \in Keys, rev \in MergeRevisions :
          Merge(t, k, rev)
             => LET m == mergeStrategy(options, rev, TxGet(tx[t], k))
                IN /\ TxGet(tx'[t], k) = m
                   /\ MapHas(tx'[t].localUpdatedEntries, k)
                   /\ MapGet(tx'[t].localUpdatedEntries, k) = m
                   /\ TxLocalRevisions(tx'[t], k) =
                         Append(TxLocalRevisions(tx[t], k),
                                [entity |-> m, revision |-> rev.revision,
                                 revisionContext |-> rev.revisionContext])
                   /\ \A other \in AllKeys \ {k} :
                         /\ TxGet(tx'[t], other) = TxGet(tx[t], other)
                         /\ MapHas(tx'[t].localUpdatedEntries, other)
                               = MapHas(tx[t].localUpdatedEntries, other)
                         /\ MapGet(tx'[t].localUpdatedEntries, other)
                               = MapGet(tx[t].localUpdatedEntries, other)
                         /\ TxLocalRevisions(tx'[t], other)
                               = TxLocalRevisions(tx[t], other)
                         /\ MapGet(tx'[t].cacheEntryState, other)
                               = MapGet(tx[t].cacheEntryState, other)]_vars

\* a transaction has merged {b: 1} into the loaded {a: 2, b: 2} of a key and
\* holds the merged entity as its value and in its one local revision
TransactionalMergeWitness ==
    \E t \in Txs, k \in Keys :
       /\ tx[t].live
       /\ Len(TxLocalRevisions(tx[t], k)) = 1
       /\ TxLocalRevisions(tx[t], k)[1].revision = 2
       /\ TxLocalRevisions(tx[t], k)[1].entity = Obj2(2, 1)
       /\ TxGet(tx[t], k) = Obj2(2, 1)
       /\ MapGet(tx[t].localUpdatedEntries, k) = Obj2(2, 1)
       /\ CacheGet(cache, k) = Obj2(2, 2)

\* C30: LRU capacity 0.  In a cache configured with expiration.lru = 0 every
\* set into the LRU tier is a no-op: the tier is empty after any sequence of
\* load and commit operations.
LruCapacityZeroKeepsNothing ==
    options.lru = 0 => cache.lruCache = <<>>

\* the step is a turn of the loop of a load or of a commit's install loop
\* that does not write cacheKey itself
WritesAnotherKey(cacheKey) ==
    \/ \E c \in Calls :
          /\ LoadStep(c)
          /\ calls[c].entries[calls[c].revisionCounter + 1].key # cacheKey
    \/ \E c \in Calls :
          /\ CommitInstallStep(c)
          /\ calls[c].it < Len(calls[c].staged)
          /\ calls[c].staged[calls[c].it + 1].key # cacheKey

\* C31: LRU eviction does not remove from the primary store.  When a load or
\* a commit evicts key k from the LRU tier by capacity pressure, the weak
\* reference of k, its revision log and the value cache.get(k) returns are
\* what they were before.
LruEvictionKeepsPrimary ==
    [][\A k \in AllKeys :
          (EvictedByCapacity(k) /\ WritesAnotherKey(k))
             => /\ MapGet(cache'.weakCache, k) = MapGet(cache.weakCache, k)
                /\ CacheEntryRevisions(cache', k) = CacheEntryRevisions(cache, k)
                /\ CacheGet(cache', k) = CacheGet(cache, k)
                /\ Truthy(CacheGet(cache', k))]_vars

\* the tier of capacity 1 holds the key a commit installed; the key loaded
\* before has lost its slot, is not reclaimed and is still read with the
\* loaded value and its revision log
LruEvictionKeepsPrimaryWitness ==
    /\ options.lru = 1
    /\ \E t \in Txs, k \in Keys, j \in Keys :
          /\ tx[t].pc = "resolved"
          /\ j \in tx[t].asked
          /\ k \notin tx[t].touched
          /\ MapHas(cache.lruCache, j)
          /\ ~MapHas(cache.lruCache, k)
          /\ CacheGet(cache, k) \in LoadValues
          /\ Len(CacheEntryRevisions(cache, k)) = 1

\* deepMerge has been called on two objects
MergedObjects ==
    /\ app.calls = 1
    /\ isObject(app.target)
    /\ isObject(app.source)

\* C32: the default deep-merge rule.  For objects t and s, deepMerge(t, s)
\* has exactly the fields of t and s together; a field only in t keeps t's
\* value, a field only in s takes s's value, a field in both with equal
\* values keeps t's value, and a field in both with differing values is the
\* deep merge of the two values when both are objects and s's value
\* otherwise.
DefaultDeepMergeRule ==
    MergedObjects =>
       LET t == app.target.f
           s == app.source.f
       IN /\ isObject(app.merged)
          /\ DOMAIN app.merged.f = (DOMAIN t) \cup (DOMAIN s)
          /\ \A k \in DOMAIN app.merged.f :
                app.merged.f[k] =
                   IF k \notin DOMAIN s THEN t[k]
                   ELSE IF k \notin DOMAIN t THEN s[k]
                   ELSE IF s[k] = t[k] THEN t[k]
                   ELSE IF isObject(s[k]) /\ isObject(t[k])
                        THEN deepMerge(t[k], s[k])
                        ELSE s[k]

\* the lines of the requests of a fetch that have not settled, oldest first,
\* from request r on
RECURSIVE UnsettledLines(_, _)
UnsettledLines(originatingFetch, r) ==
    IF r > MaxRequests THEN ""
    ELSE LET line == IF r \in PendingRequests(net, originatingFetch)
                     THEN "  " \o net.requests[r].method \o " /resource"
                     ELSE ""
             rest == UnsettledLines(originatingFetch, r + 1)
         IN IF line # "" /\ rest # "" THEN line \o "\n" \o rest
            ELSE line \o rest

\* C33: requestsCompleted timeout.  When the timer of a requestsCompleted
\* call that is still waiting fires while requests of its fetch are pending,
\* the message of the timeout error becomes the prefix followed by one line
\* with the method and the URL of each request pending at that moment and of
\* no other, the tracked pending state and the completion deferred are
\* unchanged, and the call rejects with that error: it never resolves, its
\* message is not changed again, and the promise jobs that follow reject it.
RequestsCompletedTimeout ==
    /\ [][\A w \in Waiters :
             /\ (/\ TimerFires(w)
                 /\ net.waiters[w].status = "waiting"
                 /\ PendingRequests(net, net.waiters[w].fetch) # {})
                   => /\ net'.waiters[w].message =
                            timeoutMessagePrefix \o "\n"
                               \o UnsettledLines(net.waiters[w].fetch, 1)
                      /\ net'.waiters[w].status = "waiting"
                      /\ net'.TrackingInfoPerFetch = net.TrackingInfoPerFetch
                      /\ net'.RequestsCompletedPromisesByToken
                            = net.RequestsCompletedPromisesByToken
                      /\ \A f \in Fetches :
                            /\ getPendingRequestState(net', f)
                                  = getPendingRequestState(net, f)
                            /\ PendingRequests(net', f) = PendingRequests(net, f)
             /\ (net.waiters[w].timer = "fired"
                   /\ net.waiters[w].status \in {"waiting", "rejected"})
                   => /\ net'.waiters[w].status \in {"waiting", "rejected"}
                      /\ net'.waiters[w].message = net.waiters[w].message]_vars
    /\ \A w \in Waiters :
          (net.waiters[w].status = "waiting" /\ net.waiters[w].timer = "fired")
             ~> (net.waiters[w].status = "rejected")

\* a call made while requests 1 and 2 of its fetch were pending has timed
\* out after request 1 settled and request 3 was started, and has rejected:
\* the message lists requests 2 and 3, which are still pending
RequestsCompletedTimeoutWitness ==
    \E w \in Waiters :
       /\ net.waiters[w].status = "rejected"
       /\ net.waiters[w].atCall = {1, 2}
       /\ net.requests[1].status \in {"fulfilled", "rejected"}
       /\ PendingRequests(net, net.waiters[w].fetch) = {2, 3}
       /\ net.waiters[w].message =
             timeoutMessagePrefix \o "\n  POST /resource\n  GET /resource"

\* the last record of the primary revision log of cacheKey
LogHead(c, cacheKey) ==
    CacheEntryRevisions(c, cacheKey)[Len(CacheEntryRevisions(c, cacheKey))]

\* C34: the log head matches the store.  With the default strategies, in
\* every state in which no commit is in flight and no weak entry is
\* reclaimed, for every key with a non-empty primary revision log the entity
\* of the last record of the log equals the value cache.get gives.
LogHeadMatchesStore ==
    (Quiescent /\ entriesComplete(cache))
       => \A k \in Keys :
             Len(CacheEntryRevisions(cache, k)) > 0
                => LogHead(cache, k).entity = CacheGet(cache, k)

\* the number of times the record occurs in a list of revisions
Occurrences(revisions, record) ==
    Cardinality({i \in 1..Len(revisions) : revisions[i] = record})

\* the number of times the record occurs in the local revisions of cacheKey
\* of the given transactions
RECURSIVE LocalOccurrences(_, _, _)
LocalOccurrences(transactions, cacheKey, record) ==
    IF transactions = {} THEN 0
    ELSE LET t == CHOOSE u \in transactions : TRUE
         IN Occurrences(TxLocalRevisions(tx[t], cacheKey), record)
            + LocalOccurrences(transactions \ {t}, cacheKey, record)

\* C35: no revision is installed twice.  Each local revision record of a
\* live transaction is appended to the primary revision log of its key at
\* most once, however often the transaction is committed: a record occurs
\* in the primary log of a key no more often than it occurs in the local
\* revisions of that key.
NoRevisionInstalledTwice ==
    \A k \in Keys :
       \A i \in 1..Len(CacheEntryRevisions(cache, k)) :
          Occurrences(CacheEntryRevisions(cache, k),
                      CacheEntryRevisions(cache, k)[i])
             <= LocalOccurrences(Txs, k, CacheEntryRevisions(cache, k)[i])

\* C36: the LRU tier protects what it holds.  In every reachable state every
\* key of the LRU tier is a key of the primary store, the tier holds the
\* value the weak reference of the key points to, the reference is not
\* reclaimed and cache.get of the key is defined.  A commit never writes the
\* weak reference of a key without writing the tier: every entry it has
\* staged is retained in the LRU.
LruTierProtects ==
    /\ \A i \in 1..Len(cache.lruCache) :
          LET k == cache.lruCache[i].key
          IN /\ MapHas(cache.weakCache, k)
             /\ ~MapGet(cache.weakCache, k).cleared
             /\ MapGet(cache.weakCache, k).target = cache.lruCache[i].value
             /\ CacheGet(cache, k) # Undefined
    /\ \A c \in Calls :
          calls[c].op = "commit"
             => \A i \in 1..Len(calls[c].staged) :
                   retainedLru(calls[c].staged[i].state)

\* the tier of capacity 1 holds the merged value a commit installed over a
\* loaded one, while the key loaded before it has been evicted and reclaimed
LruTierProtectsWitness ==
    /\ options.lru = 1
    /\ Len(cache.lruCache) = 1
    /\ \E t \in Txs :
          /\ tx[t].pc = "resolved"
          /\ cache.lruCache[1].key \in tx[t].asked
          /\ CacheGet(cache, cache.lruCache[1].key) = Obj2(1, 2)
    /\ \E k \in Keys :
          /\ MapHas(cache.weakCache, k)
          /\ MapGet(cache.weakCache, k).cleared

\* transaction t has read cacheKey with get and has never set, merged or
\* deleted it: the state its get recorded is retained in the LRU
OnlyRead(t, cacheKey) ==
    /\ cacheKey \notin tx[t].touched
    /\ MapHas(tx[t].cacheEntryState, cacheKey)
    /\ retainedLru(MapGet(tx[t].cacheEntryState, cacheKey))

\* what a commit does not change for a key: the weak reference, the primary
\* entry state and the primary revision log
PrimaryUnchanged(cacheKey) ==
    /\ MapGet(cache'.weakCache, cacheKey) = MapGet(cache.weakCache, cacheKey)
    /\ CacheGet(cache', cacheKey) = CacheGet(cache, cacheKey)
    /\ MapHas(cache'.cacheEntryState, cacheKey)
          = MapHas(cache.cacheEntryState, cacheKey)
    /\ MapGet(cache'.cacheEntryState, cacheKey)
          = MapGet(cache.cacheEntryState, cacheKey)
    /\ CacheEntryRevisions(cache', cacheKey)
          = CacheEntryRevisions(cache, cacheKey)

\* the keys the LRU tier would evict before cacheKey
OlderInLru(lru, cacheKey) ==
    {lru[i].key : i \in 1..(MapIndex(lru, cacheKey) - 1)}

\* a commit call of transaction t settles
CommitEnds(t) ==
    \E c \in Calls :
       calls[c].op = "commit" /\ calls[c].t = t /\ Settles(c)

\* the primary entry state and the primary revision log of cacheKey are what
\* they were when the commit was called
RecordsAsBefore(cacheKey) ==
    /\ MapHas(cache.cacheEntryState, cacheKey)
          = MapHas(app.before.cacheEntryState, cacheKey)
    /\ MapGet(cache.cacheEntryState, cacheKey)
          = MapGet(app.before.cacheEntryState, cacheKey)
    /\ CacheEntryRevisions(cache, cacheKey)
          = CacheEntryRevisions(app.before, cacheKey)

\* C37 as stated: a key a transaction has only read is untouched by that
\* transaction's commit: its primary value, primary entry state, primary
\* revision log and its position in the LRU tier are the same when the
\* commit has resolved as when it was called.
ReadsLeaveLruPosition ==
    [][\A t \in Txs, k \in Keys :
          (OnlyRead(t, k) /\ CommitEnds(t))
             => /\ CacheGet(cache, k) = CacheGet(app.before, k)
                /\ RecordsAsBefore(k)
                /\ MapIndex(cache.lruCache, k)
                      = MapIndex(app.before.lruCache, k)]_vars

\* C37, amended: reads are not written back.  No step of a commit writes the
\* weak reference, the primary entry state or the primary revision log of a
\* key the transaction has only read, and none refreshes the key in the LRU
\* tier: the key gains no slot, a slot it keeps holds the same object and no
\* key that was fresher becomes older than it, and it loses its slot only to
\* capacity eviction by a key the commit writes.  When the commit has
\* resolved, the entry state and the revision log of the key are what they
\* were at the call, and so is its weak reference, unless the host has
\* reclaimed its value, which the LRU tier does not hold.
ReadsNotWrittenBack ==
    [][\A t \in Txs, k \in Keys :
          /\ (OnlyRead(t, k) /\ CommitJob(t))
                => /\ PrimaryUnchanged(k)
                   /\ MapHas(cache'.lruCache, k)
                         => /\ MapHas(cache.lruCache, k)
                            /\ MapGet(cache'.lruCache, k)
                                  = MapGet(cache.lruCache, k)
                            /\ OlderInLru(cache'.lruCache, k)
                                  \subseteq OlderInLru(cache.lruCache, k)
                   /\ (MapHas(cache.lruCache, k) /\ ~MapHas(cache'.lruCache, k))
                         => EvictedByCapacity(k)
          /\ (OnlyRead(t, k) /\ CommitEnds(t))
                => /\ RecordsAsBefore(k)
                   /\ MapHas(cache.weakCache, k)
                         = MapHas(app.before.weakCache, k)
                   /\ \/ MapGet(cache.weakCache, k)
                            = MapGet(app.before.weakCache, k)
                      \/ ReclaimedUnprotected(cache, k)
                   /\ MapHas(cache.lruCache, k)
                         => /\ MapHas(app.before.lruCache, k)
                            /\ MapGet(cache.lruCache, k)
                                  = MapGet(app.before.lruCache, k)
                            /\ OlderInLru(cache.lruCache, k)
                                  \subseteq OlderInLru(app.before.lruCache, k)]_vars

\* the transaction has read a loaded key, written another key and committed:
\* the key it read has the loaded value, the entry state of the load and
\* the one record of the load, although the transaction holds a retained
\* state for it, and in the tier it has fallen behind the written key
ReadsNotWrittenBackWitness ==
    \E k \in Keys, j \in Keys :
       /\ tx["t1"].pc = "resolved"
       /\ OnlyRead("t1", k)
       /\ j \in tx["t1"].asked
       /\ CacheGet(cache, k) \in LoadValues
       /\ MapGet(cache.cacheEntryState, k) = Undefined
       /\ Len(CacheEntryRevisions(cache, k)) = 1
       /\ MapHas(cache.lruCache, j)
       /\ MapHas(cache.lruCache, k) => k \in OlderInLru(cache.lruCache, j)

\* the pending list of the fetch goes from empty to one request
FirstRequestStarts(originatingFetch) ==
    /\ Len(getPendingRequestState(net, originatingFetch)) = 0
    /\ Len(getPendingRequestState(net', originatingFetch)) = 1

\* while the pending list of a fetch is non-empty a deferred is registered
\* for it and unresolved, every pending request is found in the list of its
\* fetch, and no internal error has been raised (true of the initial state,
\* where nothing is pending)
TrackerConsistent ==
    /\ net.raised = {}
    /\ \A f \in Fetches :
          hasPendingRequests(net, f)
             => /\ net.RequestsCompletedPromisesByToken[f].has
                /\ ~net.RequestsCompletedPromisesByToken[f].resolved
    /\ \A r \in Requests :
          net.requests[r].status = "pending"
             => findIndex(getPendingRequestState(net, net.requests[r].fetch),
                          debugInfoOf(net, r)) # 0

\* a new deferred is registered for a fetch in exactly the steps in which
\* its pending list goes from empty to one request
FreshDeferredOnFirstRequest ==
    \A f \in Fetches :
       /\ FirstRequestStarts(f)
             => /\ net'.deferreds = net.deferreds + 1
                /\ net'.RequestsCompletedPromisesByToken[f]
                      = [has |-> TRUE, id |-> net'.deferreds, resolved |-> FALSE]
       /\ ~FirstRequestStarts(f)
             => /\ net'.RequestsCompletedPromisesByToken[f].has
                      = net.RequestsCompletedPromisesByToken[f].has
                /\ net'.RequestsCompletedPromisesByToken[f].id
                      = net.RequestsCompletedPromisesByToken[f].id

\* C38: tracker bookkeeping is consistent.  Under any interleaving of
\* request starts, successes and failures, whenever the pending list of a
\* fetch is non-empty a completion deferred is registered for that fetch and
\* is unresolved, a fresh deferred is created exactly on each transition
\* from zero to one pending request, and neither internal error of the
\* middleware is ever raised.
TrackerBookkeeping ==
    [][TrackerConsistent' /\ FreshDeferredOnFirstRequest]_vars

\* the fetch f1 is in its second busy period: its first request has
\* succeeded, then two requests were started and the younger one has failed;
\* the second deferred is registered and unresolved
TrackerBookkeepingWitness ==
    /\ net.requests[1].fetch = "f1" /\ net.requests[1].status = "fulfilled"
    /\ net.requests[2].fetch = "f1" /\ net.requests[2].status = "pending"
    /\ net.requests[3].fetch = "f1" /\ net.requests[3].status = "rejected"
    /\ net.deferreds = 2
    /\ net.RequestsCompletedPromisesByToken["f1"]
          = [has |-> TRUE, id |-> 2, resolved |-> FALSE]

====
